---- MODULE Spec2Model ----
(***************************************************************************)
(* A model of TClingMethodInfo, the cursor that enumerates the function    *)
(* declarations of a scope (cling/src/core/metacling/src/                  *)
(* TClingMethodInfo.cxx), over an abstract clang declaration tree.         *)
(***************************************************************************)
EXTENDS Integers, Sequences, FiniteSets, TLC

(***************************************************************************)
(* Bounds of the model.                                                    *)
(***************************************************************************)
\* Size of a declaration tree: every declaration, every using-shadow and
\* every re-opening of a namespace counts one node.
MaxNodes == 4
\* Advance calls made after Advance has reported not-found.
MaxEndCalls == 2
\* Cells of the heap that holds the UsingIterator objects.
HeapSize == 3

(***************************************************************************)
(* The declaration tree (clang's AST, as far as the cursor reads it).      *)
(***************************************************************************)
\* A declaration of a DeclContext.  kind is the clang class the code casts
\* to; deleted is FunctionDecl::isDeleted(); shadows is the shadow list of
\* a UsingDecl; inline and body belong to a NamespaceDecl; defaults says of
\* a FunctionTemplateDecl that every template parameter has a default (or
\* there is none) and a concrete non-deleted function can be looked up.
Decl(k, del, sh, inl, b) ==
  [ kind |-> k, deleted |-> del, shadows |-> sh, inline |-> inl, body |-> b,
    defaults |-> FALSE ]

FunctionD == Decl("Function", FALSE, <<>>, FALSE, <<>>)
DeletedFunctionD == Decl("Function", TRUE, <<>>, FALSE, <<>>)
FunctionTemplateD(def) ==
  [Decl("FunctionTemplate", FALSE, <<>>, FALSE, <<>>) EXCEPT !.defaults = def]
OtherD == Decl("Other", FALSE, <<>>, FALSE, <<>>)
UsingD(sh) == Decl("Using", FALSE, sh, FALSE, <<>>)
NamespaceD(inl, b) == Decl("Namespace", FALSE, <<>>, inl, b)

\* A using-shadow declaration: ctor says it is a ConstructorUsingShadowDecl,
\* target is the class of getTargetDecl(), implicit and deleted are the
\* target's isImplicit() and isDeleted().
Shadow(c, t, i, d) == [ctor |-> c, target |-> t, implicit |-> i, deleted |-> d]

ShadowChoices ==
  { Shadow(TRUE, "Constructor", TRUE, FALSE),
    Shadow(TRUE, "Constructor", FALSE, FALSE),
    Shadow(FALSE, "Method", FALSE, FALSE),
    Shadow(FALSE, "Method", FALSE, TRUE),
    Shadow(FALSE, "Var", FALSE, FALSE) }

ShadowSeqs(n) == UNION { [1..k -> ShadowChoices] : k \in 0..n }

RECURSIVE SeqWeight(_)
SeqWeight(s) ==
  IF s = <<>> THEN 0
  ELSE 1 + Len(Head(s).shadows) + SeqWeight(Head(s).body) + SeqWeight(Tail(s))

\* The members a class can have.
ClassDecls(n) ==
  IF n < 1 THEN {}
  ELSE {FunctionD, DeletedFunctionD, FunctionTemplateD(TRUE),
        FunctionTemplateD(FALSE), OtherD}
         \cup { UsingD(sh) : sh \in ShadowSeqs(n - 1) }

\* The declarations of a namespace body, nested namespaces left out.
PlainDecls(n) == IF n < 1 THEN {} ELSE {FunctionD, DeletedFunctionD, OtherD}

RECURSIVE PlainSeqs(_)
PlainSeqs(n) ==
  {<<>>} \cup UNION { { <<d>> \o s : s \in PlainSeqs(n - 1) } : d \in PlainDecls(n) }

\* The declarations of a namespace or of the translation unit.
NamespaceDecls(n) ==
  PlainDecls(n) \cup
    (IF n < 1 THEN {}
     ELSE { NamespaceD(inl, b) : inl \in BOOLEAN, b \in PlainSeqs(n - 1) })

RECURSIVE ClassSeqs(_)
ClassSeqs(n) ==
  {<<>>} \cup
    UNION { { <<d>> \o s : s \in ClassSeqs(n - SeqWeight(<<d>>)) } : d \in ClassDecls(n) }

RECURSIVE NamespaceSeqs(_)
NamespaceSeqs(n) ==
  {<<>>} \cup
    UNION { { <<d>> \o s : s \in NamespaceSeqs(n - SeqWeight(<<d>>)) } :
            d \in NamespaceDecls(n) }

\* A clang::QualType: its layers from the outermost one to the base type,
\* each with its kind and whether it is const-qualified; the null QualType
\* has no layer.
Layer(k, c) == [kind |-> k, const |-> c]
NullType == <<>>
IntType == <<Layer("builtin", FALSE)>>

\* A const char* result: the null pointer, or a string.
NullCStr == [null |-> TRUE, str |-> ""]
CStr(s) == [null |-> FALSE, str |-> s]

\* What the queries read of the functions of a scope (the functions of one
\* scope are declared alike): the parameter counts, the specifiers, the
\* access specifier written for them, the return type and whether it is an
\* undeduced auto, the annotation attribute, whether the declaration comes
\* from an AST file, and whether it has a comment; and the access specifier
\* written for the using-declarations of the scope.
\* DefaultFn is  int f(int = 0);  with a comment, public in a class.
DefaultFn ==
  [ numParams |-> 1, minRequiredArguments |-> 0,
    constexpr |-> FALSE, access |-> "public", static |-> FALSE,
    returnType |-> IntType, undeduced |-> FALSE,
    constMethod |-> FALSE, virtual |-> FALSE, pure |-> FALSE,
    conversion |-> FALSE, destructor |-> FALSE, explicit |-> FALSE,
    operator |-> FALSE, inlined |-> FALSE, templated |-> FALSE,
    annotation |-> NullCStr, fromASTFile |-> FALSE, comment |-> TRUE,
    usingAccess |-> "public", astDecls |-> {} ]

\* A scope: its kind, the contexts DeclContext::collectAllContexts returns
\* for it (a namespace has one context for every re-opening), and how its
\* functions are declared.
Scope(k, cs) == [kind |-> k, contexts |-> cs, fn |-> DefaultFn]

ClassScopes == { Scope("Class", <<s>>) : s \in ClassSeqs(MaxNodes) }
TUScopes == { Scope("TU", <<s>>) : s \in NamespaceSeqs(MaxNodes) }
NamespaceScopes ==
  { Scope("Namespace", <<s>>) : s \in NamespaceSeqs(MaxNodes - 1) } \cup
  UNION { { Scope("Namespace", <<s1, s2>>) :
              s2 \in NamespaceSeqs(MaxNodes - 2 - SeqWeight(s1)) } :
          s1 \in NamespaceSeqs(MaxNodes - 2) }

Scopes == ClassScopes \cup TUScopes \cup NamespaceScopes

(***************************************************************************)
(* rootclingIO: the names to store and the dictionary file.                *)
(***************************************************************************)
\* The calls that add a name before the file is closed.
MaxNames == 2

\* A const char* argument, as its characters: the null pointer, or a string.
NullChars == [null |-> TRUE, chars |-> <<>>]
Chars(s) == [null |-> FALSE, chars |-> s]

\* A data member of a class: whether it is persistent, whether its type is
\* a std::unique_ptr, whether TClass and real data of that unique_ptr type
\* are available, and whether its deleter is std::default_delete.
DataMember(p, u, a, d) ==
  [persistent |-> p, uniquePtr |-> u, available |-> a, defaultDeleter |-> d]

\* What TClass::GetClass finds: nothing, or a class with its list of data
\* members (or none), its class version, whether its dictionary is already
\* loaded, and its list of enums (or none).
NoClass ==
  [null |-> TRUE, hasDataMembers |-> FALSE, dataMembers |-> <<>>,
   classVersion |-> 0, isLoaded |-> FALSE, hasEnums |-> FALSE, enums |-> {}]
TClassOf(dms, v, l) ==
  [null |-> FALSE, hasDataMembers |-> TRUE, dataMembers |-> dms,
   classVersion |-> v, isLoaded |-> l, hasEnums |-> TRUE, enums |-> {}]

\* A: a class with an int member.  L: a class whose dictionary is loaded.
\* N: a class without a list of data members.  U: a persistent unique_ptr
\* member with a custom deleter.  V: the same, class version 0.  P: a
\* persistent unique_ptr member with the default deleter.  Q: a unique_ptr
\* member whose class is not available.  n: a namespace with the enum E.
\* o: a namespace without a list of enums.  Any other name: not found.
TClassGetClass(name) ==
  CASE name = <<"A">> -> TClassOf(<<DataMember(TRUE, FALSE, TRUE, TRUE)>>, 1, FALSE)
    [] name = <<"L">> -> TClassOf(<<>>, 1, TRUE)
    [] name = <<"N">> -> [TClassOf(<<>>, 1, FALSE) EXCEPT !.hasDataMembers = FALSE]
    [] name = <<"U">> -> TClassOf(<<DataMember(TRUE, TRUE, TRUE, FALSE)>>, 1, FALSE)
    [] name = <<"V">> -> TClassOf(<<DataMember(TRUE, TRUE, TRUE, FALSE)>>, 0, FALSE)
    [] name = <<"P">> -> TClassOf(<<DataMember(TRUE, TRUE, TRUE, TRUE)>>, 1, FALSE)
    [] name = <<"Q">> -> TClassOf(<<DataMember(TRUE, TRUE, FALSE, TRUE)>>, 1, FALSE)
    [] name = <<"n">> -> [TClassOf(<<>>, 0, FALSE) EXCEPT !.enums = {<<"E">>}]
    [] name = <<"o">> -> [TClassOf(<<>>, 0, FALSE) EXCEPT !.hasEnums = FALSE]
    [] OTHER -> NoClass

\* gROOT->GetListOfTypes()->FindObject: t is a typedef (GetType() is -1),
\* i is a basic type (GetType() is 3), any other name is not found.
NoDataType == [null |-> TRUE, type |-> 0]
FindType(dtname) ==
  CASE dtname = <<"t">> -> [null |-> FALSE, type |-> -1]
    [] dtname = <<"i">> -> [null |-> FALSE, type |-> 3]
    [] OTHER -> NoDataType

\* gROOT->GetListOfEnums(): the enum E.
GlobalEnums == {<<"E">>}

ClassNames == { <<c>> : c \in {"A", "L", "M", "N", "U", "V", "P", "Q"} }
ClassArgs ==
  {NullChars, Chars(<<>>), Chars(<<"(", "a", ")">>)} \cup { Chars(n) : n \in ClassNames }
TypedefArgs == { Chars(<<c>>) : c \in {"t", "i", "x"} }
EnumArgs ==
  { Chars(n) : n \in { <<"E">>, <<"F">>,
                        <<"n", ":", ":", "E">>, <<"n", ":", ":", "F">>,
                        <<"m", ":", ":", "E">>, <<"o", ":", ":", "E">> } }
AncestorArgs == { Chars(<<"p">>) }
Filenames == { <<"d">> }

\* std::string::npos, and find_last_of / substr on 0-based positions.
npos == -1
find_last_of(s, cs) ==
  LET hits == { k \in 1..Len(s) : s[k] \in cs }
  IN IF hits = {} THEN npos
     ELSE (CHOOSE k \in hits : \A m \in hits : m <= k) - 1
substr(s, pos, count) ==
  IF count < 0 \/ pos + count > Len(s) THEN SubSeq(s, pos + 1, Len(s))
  ELSE SubSeq(s, pos + 1, pos + count)

IsUnsupportedUniquePointer(dm, isUniquePtrOffsetZero) ==
  IF dm.uniquePtr
  THEN IF ~isUniquePtrOffsetZero THEN TRUE
       ELSE IF ~dm.available THEN TRUE
       ELSE IF ~dm.defaultDeleter THEN TRUE
       ELSE FALSE
  ELSE FALSE

\* A loop of CloseStreamerInfoROOTFile: whether it ran to its end (it did
\* not return false), and the array it filled.
Filled(list) == [ok |-> TRUE, list |-> list]
Bail == [ok |-> FALSE, list |-> <<>>]

RECURSIVE ClassLoop(_, _, _)
ClassLoop(names, protoClasses, isUniquePtrOffsetZero) ==
  IF names = <<>> THEN Filled(protoClasses)
  ELSE LET normName == Head(names)
           cl == TClassGetClass(normName)
       IN IF cl.null THEN Bail
          ELSE IF ~cl.hasDataMembers THEN Bail
          ELSE IF \E k \in 1..Len(cl.dataMembers) :
                    /\ ~(~cl.dataMembers[k].persistent \/ cl.classVersion = 0)
                    /\ IsUnsupportedUniquePointer(cl.dataMembers[k],
                                                  isUniquePtrOffsetZero)
               THEN Bail
          ELSE IF cl.isLoaded
               THEN ClassLoop(Tail(names), protoClasses, isUniquePtrOffsetZero)
          ELSE ClassLoop(Tail(names), Append(protoClasses, normName),
                         isUniquePtrOffsetZero)

RECURSIVE TypedefLoop(_, _)
TypedefLoop(names, typedefs) ==
  IF names = <<>> THEN Filled(typedefs)
  ELSE LET dt == FindType(Head(names))
       IN IF dt.null THEN TypedefLoop(Tail(names), typedefs)
          ELSE IF dt.type = -1
               THEN TypedefLoop(Tail(names), Append(typedefs, Head(names)))
          ELSE TypedefLoop(Tail(names), typedefs)

\* The enum a name of the list resolves to: whether the lookup ran to its
\* end, and the enum found (its name and the title set for it) or none.
NoEnum == [ok |-> TRUE, null |-> TRUE, name |-> <<>>, title |-> <<>>]
FindEnum(enumname) ==
  LET lastSepPos == find_last_of(enumname, {":"})
  IN IF lastSepPos # npos
     THEN LET nsName == substr(enumname, 0, lastSepPos - 1)
              tclassInstance == TClassGetClass(nsName)
              unqualifiedEnumName == substr(enumname, lastSepPos + 1, npos)
          IN IF tclassInstance.null THEN [NoEnum EXCEPT !.ok = FALSE]
             ELSE IF ~tclassInstance.hasEnums THEN [NoEnum EXCEPT !.ok = FALSE]
             ELSE IF unqualifiedEnumName \in tclassInstance.enums
                  THEN [ok |-> TRUE, null |-> FALSE,
                        name |-> unqualifiedEnumName, title |-> nsName]
             ELSE NoEnum
     ELSE IF enumname \in GlobalEnums
          THEN [ok |-> TRUE, null |-> FALSE, name |-> enumname, title |-> <<>>]
     ELSE NoEnum

RECURSIVE EnumLoop(_, _)
EnumLoop(names, enums) ==
  IF names = <<>> THEN Filled(enums)
  ELSE LET en == FindEnum(Head(names))
       IN IF ~en.ok THEN Bail
          ELSE IF en.null THEN Bail
          ELSE EnumLoop(Tail(names), Append(enums, [name |-> en.name, title |-> en.title]))

\* The keys of the dictionary file, with what was written under each.  A
\* file that could not be created (a zombie) takes no key.
Key(name, obj) == [key |-> name, obj |-> obj]
Write(file, zombie, name, obj) ==
  IF zombie THEN file ELSE Append(file, Key(name, obj))

Closed(r, file) == [ret |-> r, file |-> file]

\* A variant that writes the classes before it looks up the enums.
CloseStreamerInfoROOTFile_WritesEarly(g, writeEmptyRootPCM, zombie) ==
  LET dictFile == <<>>
      c == ClassLoop(g.gClassesToStore, <<>>, g.isUniquePtrOffsetZero)
      t == TypedefLoop(g.gTypedefsToStore, <<>>)
      e == EnumLoop(g.gEnumsToStore, <<>>)
      f1 == Write(dictFile, zombie, "__ProtoClasses", c.list)
  IN IF writeEmptyRootPCM THEN Closed(TRUE, Write(dictFile, zombie, "EMPTY", <<>>))
     ELSE IF ~c.ok THEN Closed(FALSE, dictFile)
     ELSE IF ~t.ok THEN Closed(FALSE, f1)
     ELSE IF ~e.ok THEN Closed(FALSE, f1)
     ELSE IF zombie THEN Closed(FALSE, f1)
     ELSE Closed(TRUE,
            Write(Write(Write(f1, zombie, "__Typedefs", t.list),
                              zombie, "__Enums", e.list),
                  zombie, "__AncestorPCMNames", g.gAncestorPCMNames))

\* CloseStreamerInfoROOTFile: what it returns and the dictionary file it
\* leaves, which "RECREATE" has emptied first.
CloseStreamerInfoROOTFile(g, writeEmptyRootPCM, zombie) ==
  LET dictFile == <<>>
      c == ClassLoop(g.gClassesToStore, <<>>, g.isUniquePtrOffsetZero)
      t == TypedefLoop(g.gTypedefsToStore, <<>>)
      e == EnumLoop(g.gEnumsToStore, <<>>)
  IN IF writeEmptyRootPCM THEN Closed(TRUE, Write(dictFile, zombie, "EMPTY", <<>>))
     ELSE IF ~c.ok THEN Closed(FALSE, dictFile)
     ELSE IF ~t.ok THEN Closed(FALSE, dictFile)
     ELSE IF ~e.ok THEN Closed(FALSE, dictFile)
     ELSE IF zombie THEN Closed(FALSE, dictFile)
     ELSE Closed(TRUE,
            Write(Write(Write(Write(dictFile, zombie, "__ProtoClasses", c.list),
                                    zombie, "__Typedefs", t.list),
                              zombie, "__Enums", e.list),
                  zombie, "__AncestorPCMNames", g.gAncestorPCMNames))

\* The globals of rootclingIO.cxx before any call, the outcome of the
\* unique_ptr layout probe, and the last call with what it left.
Globals(z) ==
  [ gPCMFilename |-> <<>>, gClassesToStore |-> <<>>, gTypedefsToStore |-> <<>>,
    gEnumsToStore |-> <<>>, gAncestorPCMNames |-> <<>>,
    isUniquePtrOffsetZero |-> z,
    op |-> "none", writeEmptyRootPCM |-> FALSE, zombie |-> FALSE,
    ret |-> FALSE, file |-> <<>> ]

(***************************************************************************)
(* State.                                                                  *)
(***************************************************************************)
VARIABLES
  world,     \* the scope the cursors were constructed from
  asserts,   \* whether the build checks assert(): "on", "off" (NDEBUG), or
             \* "unobserved" while no assert of a fixed cursor has been reached
  aborted,   \* whether an assert() has ended the process
  live,      \* the cursor objects that are constructed and not destroyed
  cur,       \* the fields of every cursor object
  heap,      \* the UsingIterator objects allocated with new
  origin,    \* per cursor: the constructor that made it
  ret,       \* per cursor: what its last Next() returned (-1: not called)
  visits,    \* per cursor: GetDecl() and the outer position after every
             \* Next() that returned 1
  endCalls,  \* per cursor: the Next() calls that returned 0
  last,      \* the last operation: its name and, for every
             \* PushTransactionRAII it constructed, whether it held
             \* gInterpreterMutex then
  io         \* the globals of rootclingIO.cxx and the dictionary file

vars == <<world, asserts, aborted, live, origin, cur, heap, ret, visits, endCalls, last, io>>

Ids == {"a", "b"}

(***************************************************************************)
(* Declaration handles: what a clang::Decl* or a decl_iterator points to.  *)
(***************************************************************************)
\* ctx names a DeclContext: <<k>> is the k-th collected context of the
\* scope, <<k, i>> the body of the namespace declared at place i of it.
\* sh > 0 names the target of the sh-th shadow of the using-declaration at
\* (ctx, idx); inh marks the inheriting constructor made for that target.
Handle(c, i, s, inh) == [ctx |-> c, idx |-> i, sh |-> s, inh |-> inh]

NullDecl == Handle(<<>>, 0, 0, FALSE)

DeclsOf(ref) ==
  IF Len(ref) = 1 THEN world.contexts[ref[1]]
  ELSE world.contexts[ref[1]][ref[2]].body

\* The declaration a raw handle points to.
DeclAt(h) == DeclsOf(h.ctx)[h.idx]

\* DeclContext::decls_begin()
decls_begin(ref) ==
  IF DeclsOf(ref) = <<>> THEN NullDecl ELSE Handle(ref, 1, 0, FALSE)

\* decl_iterator::operator++ : the next declaration of the same context,
\* null after the last one.
IterIncr(h) ==
  IF h.idx < Len(DeclsOf(h.ctx)) THEN Handle(h.ctx, h.idx + 1, 0, FALSE)
  ELSE NullDecl

\* llvm::dyn_cast<clang::X>(decl) succeeds
IsA(h, k) == h # NullDecl /\ h.sh = 0 /\ DeclAt(h).kind = k

\* FunctionDecl::isDeleted() of a function handle
IsDeleted(h) ==
  IF h.sh = 0 THEN DeclAt(h).deleted
  ELSE IF h.inh \/ h.sh < 0 THEN FALSE
  ELSE DeclAt(Handle(h.ctx, h.idx, 0, FALSE)).shadows[h.sh].deleted

\* llvm::isa<clang::FunctionDecl>(decl)
IsFunction(h) ==
  h # NullDecl /\ (h.sh > 0 \/ (h.sh = 0 /\ DeclAt(h).kind = "Function"))

\* A test of the namespace's context that every namespace passes.
InTranslationUnit_Anywhere(h) == TRUE

\* NS->getDeclContext()->isTranslationUnit()
InTranslationUnit(h) == world.kind = "TU" /\ Len(h.ctx) = 1

(***************************************************************************)
(* The heap of UsingIterator objects.                                      *)
(***************************************************************************)
NullPtr == 0

FreeCell == [used |-> FALSE, udecl |-> NullDecl, pos |-> 0]

EmptyHeap == [p \in 1..HeapSize |-> FreeCell]

HeapFull(h) == \A p \in 1..HeapSize : h[p].used

\* new UsingIterator(...): the lowest free cell
NewAddr(h) == CHOOSE p \in 1..HeapSize : ~h[p].used /\ \A q \in 1..(p - 1) : h[q].used

\* delete ptr
Delete(h, p) == IF p = NullPtr THEN h ELSE [h EXCEPT ![p] = FreeCell]

\* UsingIterator(interp, decl): fIter = decl->shadow_begin()
UsingIterator(udecl) == [used |-> TRUE, udecl |-> udecl, pos |-> 1]

\* UsingIterator::operator!  (fIter == fEnd)
UsingAtEnd(it) == it.pos > Len(DeclAt(it.udecl).shadows)

\* llvm::dyn_cast<clang::FunctionDecl>((*fIter)->getTargetDecl())
TargetAsFunction(it) ==
  IF DeclAt(it.udecl).shadows[it.pos].target \in {"Function", "Method", "Constructor"}
  THEN Handle(it.udecl.ctx, it.udecl.idx, it.pos, FALSE)
  ELSE NullDecl

\* UsingIterator::operator*
UsingDeref(it) ==
  IF UsingAtEnd(it) THEN NullDecl
  ELSE LET s == DeclAt(it.udecl).shadows[it.pos] IN
       IF s.ctor /\ s.target = "Constructor"
       THEN IF s.implicit THEN NullDecl
            ELSE Handle(it.udecl.ctx, it.udecl.idx, it.pos, TRUE)
       ELSE IF ~s.ctor /\ s.target = "Method"
       THEN Handle(it.udecl.ctx, it.udecl.idx, it.pos, FALSE)
       ELSE TargetAsFunction(it)

(***************************************************************************)
(* The cursor.                                                             *)
(***************************************************************************)
\* The data members of TClingMethodInfo and of its base TClingDeclInfo.
Cursor(decl, contexts, iter) ==
  [ fDecl |-> decl, fNameCache |-> "", fContexts |-> contexts,
    fFirstTime |-> TRUE, fContextIdx |-> 0, fIter |-> iter, fTitle |-> "",
    fTemplateSpec |-> NullDecl, fUsingIter |-> NullPtr, fAccessDecl |-> NullDecl ]

\* The function the body after the first return would yield: the concrete
\* function looked up for a template whose parameters all have defaults.
\* It is named by the handle of the template with inh set.
GetOrInstantiate_LooksUp(templateDecl) ==
  IF DeclAt(templateDecl).defaults
  THEN Handle(templateDecl.ctx, templateDecl.idx, 0, TRUE)
  ELSE NullDecl

\* The same without the test of the template parameters.
GetOrInstantiate_AnyTemplate(templateDecl) ==
  Handle(templateDecl.ctx, templateDecl.idx, 0, TRUE)

\* GetOrInstantiateFuncTemplateWithDefaults: returns nullptr first thing.
GetOrInstantiateFuncTemplateWithDefaults(templateDecl) == NullDecl

\* The inner loop returning 1 on every shadow that is left, null or not.
UsingLoop_NoNullSkip(h, p) ==
  LET h1 == [h EXCEPT ![p].pos = @ + 1] IN
  [h |-> h1, found |-> ~UsingAtEnd(h1[p])]

\* while (++(*fUsingIter)) { if (*(*fUsingIter)) return 1; }
RECURSIVE UsingLoop(_, _)
UsingLoop(h, p) ==
  LET h1 == [h EXCEPT ![p].pos = @ + 1] IN
  IF UsingAtEnd(h1[p]) THEN [h |-> h1, found |-> FALSE]
  ELSE IF UsingDeref(h1[p]) # NullDecl THEN [h |-> h1, found |-> TRUE]
  ELSE UsingLoop(h1, p)

\* while (!*fIter) { ++fContextIdx; ... fIter = dc->decls_begin(); ... }
\* txn says whether a PushTransactionRAII was constructed on the way.
RECURSIVE FixContext(_)
FixContext(c) ==
  IF c.fIter # NullDecl THEN [c |-> c, end |-> FALSE, txn |-> FALSE]
  ELSE LET c1 == [c EXCEPT !.fContextIdx = @ + 1] IN
       IF c1.fContextIdx >= Len(c1.fContexts)
       THEN [c |-> c1, end |-> TRUE, txn |-> FALSE]
       ELSE LET f == FixContext([c1 EXCEPT !.fIter =
                                   decls_begin(c1.fContexts[c1.fContextIdx + 1])])
            IN [f EXCEPT !.txn = TRUE]

\* A push_back that drops the contexts the list holds.
push_back_Replaces(contexts, NS) == <<NS>>

\* fContexts.push_back(NS)
push_back(contexts, NS) == Append(contexts, NS)

\* What one pass of InternalNext's while (true) does after the position is
\* fixed: the declaration at fIter is classified.  step says whether the
\* pass returned 1 ("found") or goes round again ("again"); oom marks a
\* new that found the heap full; txn says whether a PushTransactionRAII
\* was constructed.
Classify(c, h) ==
  LET cur_decl == c.fIter
      spec0 == IF IsA(cur_decl, "FunctionTemplate")
               THEN GetOrInstantiateFuncTemplateWithDefaults(cur_decl)
               ELSE NullDecl
      spec == IF spec0 # NullDecl /\ IsDeleted(spec0) THEN NullDecl ELSE spec0
      c1 == IF IsA(cur_decl, "FunctionTemplate")
            THEN [c EXCEPT !.fTemplateSpec = spec] ELSE c
      tx == IsA(cur_decl, "FunctionTemplate")
  IN
  IF c1.fTemplateSpec # NullDecl
  THEN [c |-> c1, h |-> h, step |-> "found", oom |-> FALSE, txn |-> tx]
  ELSE IF IsA(cur_decl, "Using")
  THEN LET h1 == Delete(h, c1.fUsingIter) IN
       IF HeapFull(h1)
       THEN [c |-> c1, h |-> h1, step |-> "found", oom |-> TRUE, txn |-> tx]
       ELSE LET p == NewAddr(h1) IN
            [ c |-> [c1 EXCEPT !.fAccessDecl = cur_decl, !.fUsingIter = p],
              h |-> [h1 EXCEPT ![p] = UsingIterator(cur_decl)],
              step |-> "found", oom |-> FALSE, txn |-> tx ]
  ELSE IF IsA(cur_decl, "Function") /\ ~IsDeleted(cur_decl)
  THEN [c |-> c1, h |-> h, step |-> "found", oom |-> FALSE, txn |-> tx]
  ELSE IF IsA(cur_decl, "Namespace") /\ InTranslationUnit(cur_decl)
          /\ DeclAt(cur_decl).inline
  THEN [ c |-> [c1 EXCEPT !.fContexts = push_back(@, <<cur_decl.ctx[1], cur_decl.idx>>)],
         h |-> h, step |-> "again", oom |-> FALSE, txn |-> tx ]
  ELSE [c |-> c1, h |-> h, step |-> "again", oom |-> FALSE, txn |-> tx]

\* AdvanceStep without the fFirstTime branch: the first pass steps too.
AdvanceStep_AlwaysSteps(c, h) ==
  IF c.fUsingIter # NullPtr /\ ~UsingAtEnd(h[c.fUsingIter])
  THEN LET u == UsingLoop(h, c.fUsingIter) IN
       IF u.found THEN [c |-> [c EXCEPT !.fFirstTime = FALSE], h |-> u.h, moved |-> FALSE]
       ELSE [ c |-> [c EXCEPT !.fFirstTime = FALSE, !.fUsingIter = NullPtr,
                              !.fAccessDecl = NullDecl,
                              !.fIter = IterIncr(@)],
              h |-> Delete(u.h, c.fUsingIter), moved |-> TRUE ]
  ELSE [ c |-> [c EXCEPT !.fFirstTime = FALSE,
                         !.fIter = IF @ = NullDecl THEN @ ELSE IterIncr(@)],
         h |-> h, moved |-> TRUE ]

\* The "advance to the next decl" part of a pass: moved says whether the
\* pass goes on to fix the position, or has returned 1 from the inner loop
\* over the using-shadows.
AdvanceStep(c, h) ==
  IF c.fFirstTime
  THEN [c |-> [c EXCEPT !.fFirstTime = FALSE], h |-> h, moved |-> TRUE]
  ELSE IF c.fUsingIter # NullPtr /\ ~UsingAtEnd(h[c.fUsingIter])
  THEN LET u == UsingLoop(h, c.fUsingIter) IN
       IF u.found THEN [c |-> c, h |-> u.h, moved |-> FALSE]
       ELSE [ c |-> [c EXCEPT !.fUsingIter = NullPtr, !.fAccessDecl = NullDecl,
                              !.fIter = IterIncr(@)],
              h |-> Delete(u.h, c.fUsingIter), moved |-> TRUE ]
  ELSE [c |-> [c EXCEPT !.fIter = IterIncr(@)], h |-> h, moved |-> TRUE]

\* The while (true) loop of InternalNext.
RECURSIVE InternalNextLoop(_, _)
InternalNextLoop(c0, h0) ==
  LET a == AdvanceStep([c0 EXCEPT !.fTemplateSpec = NullDecl], h0) IN
  IF ~a.moved THEN [c |-> a.c, h |-> a.h, ret |-> 1, oom |-> FALSE, txn |-> FALSE]
  ELSE LET f == FixContext(a.c) IN
       IF f.end THEN [c |-> f.c, h |-> a.h, ret |-> 0, oom |-> FALSE, txn |-> f.txn]
       ELSE LET k == Classify(f.c, a.h) IN
            IF k.step = "found"
            THEN [ c |-> k.c, h |-> k.h, ret |-> 1, oom |-> k.oom,
                   txn |-> f.txn \/ k.txn ]
            ELSE LET n == InternalNextLoop(k.c, k.h) IN
                 [n EXCEPT !.txn = @ \/ f.txn \/ k.txn]

\* InternalNext that starts over from the first context when the iterator
\* is already invalid.
InternalNext_StartsOver(c0, h) ==
  LET c == [c0 EXCEPT !.fNameCache = ""] IN
  IF ~c.fFirstTime /\ c.fIter = NullDecl
  THEN InternalNextLoop([c EXCEPT !.fFirstTime = TRUE, !.fContextIdx = 0,
                                  !.fIter = decls_begin(<<1>>)], h)
  ELSE InternalNextLoop(c, h)

\* TClingMethodInfo::InternalNext, after its assert.
InternalNext(c0, h) ==
  LET c == [c0 EXCEPT !.fNameCache = ""] IN
  IF ~c.fFirstTime /\ c.fIter = NullDecl
  THEN [c |-> c, h |-> h, ret |-> 0, oom |-> FALSE, txn |-> FALSE]
  ELSE InternalNextLoop(c, h)

\* The constructor without the fFirstTime = true that follows InternalNext().
ScopeCursor_KeepsFirstTime(h) ==
  LET refs == [k \in 1..Len(world.contexts) |-> <<k>>]
      r == InternalNext(Cursor(NullDecl, refs, decls_begin(<<1>>)), h)
  IN [c |-> r.c, h |-> r.h, oom |-> r.oom]

\* TClingMethodInfo(interp, ci) for a valid ci: the contexts are collected,
\* fIter is set to the first declaration, InternalNext() runs once and
\* fFirstTime is set again.
ScopeCursor(h) ==
  LET refs == [k \in 1..Len(world.contexts) |-> <<k>>]
      r == InternalNext(Cursor(NullDecl, refs, decls_begin(<<1>>)), h)
  IN [c |-> [r.c EXCEPT !.fFirstTime = TRUE], h |-> r.h, oom |-> r.oom]

\* The constructor without its early return: the contexts are collected
\* for an invalid ci too.
InvalidCursor_CollectsContexts == Cursor(NullDecl, <<<<1>>>>, decls_begin(<<1>>))

\* TClingMethodInfo(interp, ci) for a null or invalid ci: returns early.
InvalidCursor == Cursor(NullDecl, <<>>, NullDecl)

\* TClingMethodInfo(interp, FD)
FixedCursor(FD) == Cursor(FD, <<>>, NullDecl)

\* GetDeclSlow that does not look at fUsingIter.
GetDeclSlow_IgnoresUsingIter(c, h) ==
  IF c.fTemplateSpec # NullDecl THEN c.fTemplateSpec ELSE c.fIter

\* TClingMethodInfo::GetDeclSlow
GetDeclSlow(c, h) ==
  IF c.fTemplateSpec # NullDecl THEN c.fTemplateSpec
  ELSE IF c.fUsingIter # NullPtr
  THEN IF UsingAtEnd(h[c.fUsingIter]) THEN NullDecl
       ELSE UsingDeref(h[c.fUsingIter])
  ELSE c.fIter

\* GetDecl that does not look at fDecl.
GetDecl_IgnoresFixed(c, h) == GetDeclSlow(c, h)

\* TClingMethodInfo::GetDecl
GetDecl(c, h) == IF c.fDecl # NullDecl THEN c.fDecl ELSE GetDeclSlow(c, h)

\* TClingDeclInfo::IsValid
IsValid(c, h) == GetDecl(c, h) # NullDecl

\* What cast_or_null<FunctionDecl> yields for a declaration that is not a
\* function: no declaration of any scope.
BadCast == Handle(<<>>, 0, -1, FALSE)


\* What the queries read of a function declaration: how the functions of
\* the scope are declared, and what follows from where fd is.  Outside a
\* class a declaration has the access AS_none; an inheriting constructor
\* is a constructor of the class.
AttrsOf(fd) ==
  LET name == IF fd.sh = 0 THEN "f" \o ToString(fd.idx)
              ELSE IF fd.inh THEN "ctor" \o ToString(fd.sh)
              ELSE "base" \o ToString(fd.sh)
      f == world.fn
  IN
  [ name |-> name,
    numParams |-> f.numParams, minRequiredArguments |-> f.minRequiredArguments,
    constexpr |-> f.constexpr,
    access |-> IF world.kind = "Class" THEN f.access ELSE "none",
    inNamespace |-> fd.sh = 0 /\ (world.kind = "Namespace" \/ Len(fd.ctx) = 2),
    static |-> f.static,
    returnType |-> f.returnType, undeduced |-> f.undeduced,
    method |-> world.kind = "Class", constMethod |-> f.constMethod,
    virtual |-> f.virtual, pure |-> f.pure,
    constructor |-> fd.sh > 0 /\
                    DeclAt(Handle(fd.ctx, fd.idx, 0, FALSE)).shadows[fd.sh].target
                      = "Constructor",
    conversion |-> f.conversion, destructor |-> f.destructor,
    explicit |-> f.explicit, operator |-> f.operator, inlined |-> f.inlined,
    templated |-> f.templated,
    annotation |-> f.annotation,
    fromASTFile |-> f.fromASTFile \/ (fd.sh = 0 /\ fd.idx \in f.astDecls),
    comment |-> IF f.comment THEN "// " \o name ELSE "" ]

\* getAccess() of a using-declaration that is the access of the functions
\* of the scope.
UsingAccess_OfTarget(udecl) == world.fn.access

\* getAccess() of the using-declaration kept in fAccessDecl
UsingAccess(udecl) == world.fn.usingAccess

\* TClingMethodInfo::GetMethodDecl: cast_or_null<FunctionDecl>(GetDecl())
GetMethodDecl(c, h) ==
  LET d == GetDecl(c, h) IN
  IF d = NullDecl \/ IsFunction(d) THEN d ELSE BadCast

\* TClingMethodInfo::GetDeclId
GetDeclId(c, h) == IF ~IsValid(c, h) THEN NullDecl ELSE GetMethodDecl(c, h)

\* NArg without its validity check returning -1.
NArg_ZeroWhenInvalid(c, h) ==
  IF ~IsValid(c, h) THEN 0
  ELSE AttrsOf(GetMethodDecl(c, h)).numParams

\* TClingMethodInfo::NArg
NArg(c, h) ==
  IF ~IsValid(c, h) THEN -1
  ELSE AttrsOf(GetMethodDecl(c, h)).numParams

\* TClingMethodInfo::NDefaultArg
NDefaultArg(c, h) ==
  IF ~IsValid(c, h) THEN -1
  ELSE LET fd == GetMethodDecl(c, h) IN
       AttrsOf(fd).numParams - AttrsOf(fd).minRequiredArguments

\* The loop of Property over the canonical return type: arrays, references,
\* pointers and member pointers are stripped; the result is the bits set
\* on the way and the type that is left.
RECURSIVE StripType_MemberPointerIsPointer(_, _)
StripType_MemberPointerIsPointer(qt, bits) ==
  IF Head(qt).kind = "array" THEN StripType_MemberPointerIsPointer(Tail(qt), bits)
  ELSE IF Head(qt).kind = "reference"
  THEN StripType_MemberPointerIsPointer(Tail(qt), bits \cup {"kIsReference"})
  ELSE IF Head(qt).kind \in {"pointer", "memberpointer"}
  THEN StripType_MemberPointerIsPointer(Tail(qt),
                 bits \cup {"kIsPointer"} \cup
                   (IF Head(qt).const THEN {"kIsConstPointer"} ELSE {}))
  ELSE [qt |-> qt, bits |-> bits]

RECURSIVE StripType(_, _)
StripType(qt, bits) ==
  IF Head(qt).kind = "array" THEN StripType(Tail(qt), bits)
  ELSE IF Head(qt).kind = "reference"
  THEN StripType(Tail(qt), bits \cup {"kIsReference"})
  ELSE IF Head(qt).kind = "pointer"
  THEN StripType(Tail(qt),
                 bits \cup {"kIsPointer"} \cup
                   (IF Head(qt).const THEN {"kIsConstPointer"} ELSE {}))
  ELSE IF Head(qt).kind = "memberpointer" THEN StripType(Tail(qt), bits)
  ELSE [qt |-> qt, bits |-> bits]

\* The bits with AS_none reported as public in every context, without the
\* test of fd->getDeclContext()->isNamespace().
PropertyBits_NoneIsPublic(c, fd) ==
  LET a == AttrsOf(fd)
      access == IF c.fAccessDecl # NullDecl THEN UsingAccess(c.fAccessDecl)
                ELSE a.access
      st == StripType(a.returnType, {})
  IN {"kIsCompiled"}
     \cup (IF a.constexpr THEN {"kIsConstexpr"} ELSE {})
     \cup (IF access = "public" THEN {"kIsPublic"}
           ELSE IF access = "protected" THEN {"kIsProtected"}
           ELSE IF access = "private" THEN {"kIsPrivate"}
           ELSE {"kIsPublic"})
     \cup (IF a.static THEN {"kIsStatic"} ELSE {})
     \cup (IF Head(a.returnType).const THEN {"kIsConstant"} ELSE {})
     \cup st.bits
     \cup (IF Head(st.qt).const THEN {"kIsConstant"} ELSE {})
     \cup (IF a.method /\ a.constMethod
           THEN {"kIsConstant", "kIsConstMethod"} ELSE {})
     \cup (IF a.method /\ a.virtual THEN {"kIsVirtual"} ELSE {})
     \cup (IF a.method /\ a.pure THEN {"kIsPureVirtual"} ELSE {})
     \cup (IF a.method /\ (a.constructor \/ a.conversion) /\ a.explicit
           THEN {"kIsExplicit"} ELSE {})

\* The bits Property sets for a function fd that is not deleted.
PropertyBits(c, fd) ==
  LET a == AttrsOf(fd)
      access == IF c.fAccessDecl # NullDecl THEN UsingAccess(c.fAccessDecl)
                ELSE a.access
      st == StripType(a.returnType, {})
  IN {"kIsCompiled"}
     \cup (IF a.constexpr THEN {"kIsConstexpr"} ELSE {})
     \cup (IF access = "public" THEN {"kIsPublic"}
           ELSE IF access = "protected" THEN {"kIsProtected"}
           ELSE IF access = "private" THEN {"kIsPrivate"}
           ELSE IF a.inNamespace THEN {"kIsPublic"} ELSE {})
     \cup (IF a.static THEN {"kIsStatic"} ELSE {})
     \cup (IF Head(a.returnType).const THEN {"kIsConstant"} ELSE {})
     \cup st.bits
     \cup (IF Head(st.qt).const THEN {"kIsConstant"} ELSE {})
     \cup (IF a.method /\ a.constMethod
           THEN {"kIsConstant", "kIsConstMethod"} ELSE {})
     \cup (IF a.method /\ a.virtual THEN {"kIsVirtual"} ELSE {})
     \cup (IF a.method /\ a.pure THEN {"kIsPureVirtual"} ELSE {})
     \cup (IF a.method /\ (a.constructor \/ a.conversion) /\ a.explicit
           THEN {"kIsExplicit"} ELSE {})

\* Property without its test of isDeleted().
Property_KeepsDeleted(c, h) ==
  IF ~IsValid(c, h) THEN {}
  ELSE PropertyBits(c, GetMethodDecl(c, h))

\* TClingMethodInfo::Property: the bitmask as the set of its bits.
Property(c, h) ==
  IF ~IsValid(c, h) THEN {}
  ELSE LET fd == GetMethodDecl(c, h) IN
       IF IsDeleted(fd) THEN {}
       ELSE PropertyBits(c, fd)

\* TClingMethodInfo::ExtraProperty
ExtraProperty(c, h) ==
  IF ~IsValid(c, h) THEN {}
  ELSE LET fd == GetMethodDecl(c, h) IN
       IF IsDeleted(fd) THEN {}
       ELSE LET a == AttrsOf(fd) IN
            (IF a.operator THEN {"kIsOperator"} ELSE {})
            \cup (IF a.conversion THEN {"kIsConversion"} ELSE {})
            \cup (IF a.constructor THEN {"kIsConstructor"} ELSE {})
            \cup (IF a.destructor THEN {"kIsDestructor"} ELSE {})
            \cup (IF a.inlined THEN {"kIsInlined"} ELSE {})
            \cup (IF a.templated THEN {"kIsTemplateSpec"} ELSE {})

\* TClingMethodInfo::Type: the QualType the returned TClingTypeInfo holds.
\* A constructor's type is its class; the class is the layer "record".
Type(c, h) ==
  IF ~IsValid(c, h) THEN NullType
  ELSE LET fd == GetMethodDecl(c, h) IN
       IF AttrsOf(fd).constructor THEN <<Layer("record", FALSE)>>
       ELSE AttrsOf(fd).returnType

\* TClingTypeInfo::Name of a QualType
TypeText(qt) == IF qt = NullType THEN "" ELSE Head(qt).kind

\* TClingMethodInfo::TypeName
TypeName(c, h) == IF ~IsValid(c, h) THEN NullCStr ELSE CStr(TypeText(Type(c, h)))

\* TClingMethodInfo::GetMangledName
GetMangledName(c, h) ==
  IF ~IsValid(c, h) THEN ""
  ELSE "_Z" \o AttrsOf(GetMethodDecl(c, h)).name

\* Name() that marks the cursor as not advanced, as the constructor does
\* after its InternalNext().
Name_SetsFirstTime(c, h) ==
  IF ~IsValid(c, h) THEN [c |-> c, ret |-> NullCStr]
  ELSE LET n == AttrsOf(GetMethodDecl(c, h)).name IN
       [c |-> [c EXCEPT !.fNameCache = n, !.fFirstTime = TRUE], ret |-> CStr(n)]

\* TClingMethodInfo::Name: the name is computed once and kept in
\* fNameCache; the result is the cursor after the call and the string.
Name(c, h) ==
  IF ~IsValid(c, h) THEN [c |-> c, ret |-> NullCStr]
  ELSE IF c.fNameCache # "" THEN [c |-> c, ret |-> CStr(c.fNameCache)]
  ELSE LET n == AttrsOf(GetMethodDecl(c, h)).name IN
       [c |-> [c EXCEPT !.fNameCache = n], ret |-> CStr(n)]

\* TClingMethodInfo::Title: the annotation of the declaration, else the
\* comment of a declaration that is not from an AST file, is stored in
\* fTitle; fTitle is returned.
Title(c, h) ==
  IF ~IsValid(c, h) THEN [c |-> c, ret |-> NullCStr]
  ELSE LET a == AttrsOf(GetMethodDecl(c, h))
           t == IF ~a.annotation.null THEN a.annotation.str
                ELSE IF ~a.fromASTFile THEN a.comment
                ELSE c.fTitle
       IN [c |-> [c EXCEPT !.fTitle = t], ret |-> CStr(t)]

(***************************************************************************)
(* Operations.                                                             *)
(***************************************************************************)
\* What is kept of an operation: its name and, for every
\* PushTransactionRAII it constructed, whether R__LOCKGUARD(gInterpreterMutex)
\* was in scope at that place.
Op(name, txns) == [op |-> name, txns |-> txns]

\* The fields of a cursor object that is not constructed.
Unborn == Cursor(NullDecl, <<>>, NullDecl)

\* The functions of the scope a caller can hold a FunctionDecl* of.
FunctionsOfScope ==
  UNION { { Handle(<<k>>, n, 0, FALSE) :
              n \in { m \in 1..Len(world.contexts[k]) :
                        world.contexts[k][m].kind = "Function" } } :
          k \in 1..Len(world.contexts) }

Init ==
  /\ world \in Scopes
  /\ io = Globals(TRUE)
  /\ asserts = "unobserved"
  /\ aborted = FALSE
  /\ live = {}
  /\ origin = [i \in Ids |-> "none"]
  /\ cur = [i \in Ids |-> Unborn]
  /\ heap = EmptyHeap
  /\ ret = [i \in Ids |-> -1]
  /\ visits = [i \in Ids |-> <<>>]
  /\ endCalls = [i \in Ids |-> 0]
  /\ last = Op("none", {})

\* TClingMethodInfo(interp, ci) with a valid class info of the scope
ConstructFromScope(i) ==
  /\ ~aborted
  /\ live = {}
  /\ \E r \in {ScopeCursor(heap)} :
     /\ ~r.oom
     /\ cur' = [cur EXCEPT ![i] = r.c]
     /\ heap' = r.h
  /\ live' = live \cup {i}
  /\ origin' = [origin EXCEPT ![i] = "scope"]
  /\ last' = Op("TClingMethodInfo", {TRUE})
  /\ UNCHANGED <<world, io, asserts, aborted, ret, visits, endCalls>>

\* TClingMethodInfo(interp, ci) with ci null or !ci->IsValid()
ConstructInvalid(i) ==
  /\ ~aborted
  /\ live = {}
  /\ cur' = [cur EXCEPT ![i] = InvalidCursor]
  /\ live' = live \cup {i}
  /\ origin' = [origin EXCEPT ![i] = "invalid"]
  /\ last' = Op("TClingMethodInfo", {})
  /\ UNCHANGED <<world, io, asserts, aborted, heap, ret, visits, endCalls>>

\* TClingMethodInfo(interp, FD) with a function of the scope
ConstructFixed(i) ==
  /\ ~aborted
  /\ live = {}
  /\ \E FD \in FunctionsOfScope : cur' = [cur EXCEPT ![i] = FixedCursor(FD)]
  /\ live' = live \cup {i}
  /\ origin' = [origin EXCEPT ![i] = "fixed"]
  /\ last' = Op("TClingMethodInfo", {})
  /\ UNCHANGED <<world, io, asserts, aborted, heap, ret, visits, endCalls>>

\* The copy constructor with the default member-wise copy: fUsingIter of
\* the copy is the pointer of rhs.
CopyConstructed_SharesUsingIter(rhs, h) == [c |-> rhs, h |-> h, oom |-> FALSE]

\* TClingMethodInfo(const TClingMethodInfo &rhs): every field is copied,
\* fUsingIter is a new UsingIterator copied from the one of rhs.
CopyConstructed(rhs, h) ==
  IF rhs.fUsingIter = NullPtr THEN [c |-> rhs, h |-> h, oom |-> FALSE]
  ELSE IF HeapFull(h) THEN [c |-> rhs, h |-> h, oom |-> TRUE]
  ELSE LET p == NewAddr(h) IN
       [ c |-> [rhs EXCEPT !.fUsingIter = p],
         h |-> [h EXCEPT ![p] = h[rhs.fUsingIter]], oom |-> FALSE ]

\* TClingMethodInfo::operator= with this != &rhs: every field is
\* overwritten, fUsingIter is set to nullptr (the UsingIterator it pointed
\* to is not deleted) and then to a new copy of the one of rhs.
Assigned(lhs, rhs, h) ==
  LET c1 == [rhs EXCEPT !.fUsingIter = NullPtr] IN
  IF rhs.fUsingIter = NullPtr THEN [c |-> c1, h |-> h, oom |-> FALSE]
  ELSE IF HeapFull(h) THEN [c |-> c1, h |-> h, oom |-> TRUE]
  ELSE LET p == NewAddr(h) IN
       [ c |-> [c1 EXCEPT !.fUsingIter = p],
         h |-> [h EXCEPT ![p] = h[rhs.fUsingIter]], oom |-> FALSE ]

\* TClingMethodInfo j(i): cursor j is copy-constructed from cursor i
CopyConstruct(j, i) ==
  /\ ~aborted
  /\ i \in live /\ j \notin live
  /\ LET r == CopyConstructed(cur[i], heap) IN
     /\ ~r.oom
     /\ cur' = [cur EXCEPT ![j] = r.c]
     /\ heap' = r.h
  /\ live' = live \cup {j}
  /\ origin' = [origin EXCEPT ![j] = "copy"]
  /\ ret' = [ret EXCEPT ![j] = -1]
  /\ visits' = [visits EXCEPT ![j] = <<>>]
  /\ endCalls' = [endCalls EXCEPT ![j] = 0]
  /\ last' = Op("TClingMethodInfo", {})
  /\ UNCHANGED <<world, io, asserts, aborted>>

\* j = i: cursor i is assigned to cursor j
Assign(j, i) ==
  /\ ~aborted
  /\ i \in live /\ j \in live /\ j # i
  /\ LET r == Assigned(cur[j], cur[i], heap) IN
     /\ ~r.oom
     /\ cur' = [cur EXCEPT ![j] = r.c]
     /\ heap' = r.h
  /\ origin' = [origin EXCEPT ![j] = "copy"]
  /\ ret' = [ret EXCEPT ![j] = -1]
  /\ visits' = [visits EXCEPT ![j] = <<>>]
  /\ endCalls' = [endCalls EXCEPT ![j] = 0]
  /\ last' = Op("operator=", {})
  /\ UNCHANGED <<world, io, asserts, aborted, live>>

\* TClingMethodInfo::Init(decl): the iteration state is reset, the
\* UsingIterator is deleted and fDecl is set; fNameCache and fTitle are not
\* touched.
Initialized(c, decl, h) ==
  [ c |-> [c EXCEPT !.fContexts = <<>>, !.fFirstTime = TRUE, !.fContextIdx = 0,
                    !.fIter = NullDecl, !.fTemplateSpec = NullDecl,
                    !.fUsingIter = NullPtr, !.fAccessDecl = NullDecl,
                    !.fDecl = decl],
    h |-> Delete(h, c.fUsingIter) ]

\* i.Init(decl) with a function of the scope or a null pointer
MethodInfoInit(i) ==
  /\ ~aborted
  /\ i \in live
  /\ \E decl \in FunctionsOfScope \cup {NullDecl} :
       LET r == Initialized(cur[i], decl, heap) IN
       /\ cur' = [cur EXCEPT ![i] = r.c]
       /\ heap' = r.h
  /\ origin' = [origin EXCEPT ![i] = "fixed"]
  /\ ret' = [ret EXCEPT ![i] = -1]
  /\ visits' = [visits EXCEPT ![i] = <<>>]
  /\ endCalls' = [endCalls EXCEPT ![i] = 0]
  /\ last' = Op("Init", {})
  /\ UNCHANGED <<world, io, asserts, aborted, live>>

\* TClingMethodInfo::Next on cursor i, when the assert of InternalNext
\* passes or is compiled out (NDEBUG).
Advance(i) ==
  /\ ~aborted
  /\ i \in live
  /\ cur[i].fDecl = NullDecl \/ asserts # "on"
  /\ asserts' = IF cur[i].fDecl = NullDecl THEN asserts ELSE "off"
  /\ endCalls[i] < MaxEndCalls
  /\ \E r \in {InternalNext(cur[i], heap)} :
     /\ ~r.oom
     /\ cur' = [cur EXCEPT ![i] = r.c]
     /\ heap' = r.h
     /\ ret' = [ret EXCEPT ![i] = r.ret]
     /\ visits' = [visits EXCEPT ![i] =
                      IF r.ret = 1
                      THEN Append(@, [decl |-> GetDecl(r.c, r.h), at |-> r.c.fIter])
                      ELSE @]
     /\ endCalls' = [endCalls EXCEPT ![i] = IF r.ret = 0 THEN @ + 1 ELSE @]
     /\ last' = Op("Next", IF r.txn THEN {FALSE} ELSE {})
  /\ UNCHANGED <<world, io, aborted, live, origin>>

\* The queries of the current declaration.
Queries ==
  { "GetDecl", "GetDeclId", "NArg", "NDefaultArg", "Property", "ExtraProperty",
    "Type", "TypeName", "GetMangledName", "Name", "Title" }

\* The transactions of GetDecl(): GetDeclSlow resolves a shadow inside a
\* PushTransactionRAII, after R__LOCKGUARD.
GetDeclTxns(c, h) ==
  IF /\ c.fDecl = NullDecl /\ c.fTemplateSpec = NullDecl
     /\ c.fUsingIter # NullPtr /\ ~UsingAtEnd(h[c.fUsingIter])
  THEN {TRUE} ELSE {}

\* The transactions of query q: those of the GetDecl() calls it makes; in
\* Type() the one around DeduceReturnType, which has no R__LOCKGUARD; in
\* GetMangledName() and Title() the one after their R__LOCKGUARD.
QueryTxns(q, c, h) ==
  GetDeclTxns(c, h)
    \cup (IF /\ q \in {"Type", "TypeName"} /\ IsValid(c, h)
              /\ ~AttrsOf(GetMethodDecl(c, h)).constructor
              /\ AttrsOf(GetMethodDecl(c, h)).undeduced
           THEN {FALSE} ELSE {})
    \cup (IF q \in {"GetMangledName", "Title"} /\ IsValid(c, h) THEN {TRUE} ELSE {})

\* The cursor after query q: Name() and Title() are not const.
AfterQuery(q, c, h) ==
  IF q = "Name" THEN Name(c, h).c
  ELSE IF q = "Title" THEN Title(c, h).c
  ELSE c

\* A query of the current declaration of cursor i
Query(i) ==
  /\ ~aborted
  /\ i \in live
  /\ \E q \in Queries :
       /\ cur' = [cur EXCEPT ![i] = AfterQuery(q, cur[i], heap)]
       /\ last' = Op(q, QueryTxns(q, cur[i], heap))
  /\ UNCHANGED <<world, io, asserts, aborted, live, origin, heap, ret, visits, endCalls>>

\* The queries that are not const: they write fNameCache and fTitle.
CachingQueries == {"Name", "Title"}

\* Name() or Title() of cursor i
CachingQuery(i) ==
  /\ ~aborted
  /\ i \in live
  /\ \E q \in CachingQueries :
       /\ cur' = [cur EXCEPT ![i] = AfterQuery(q, cur[i], heap)]
       /\ last' = Op(q, QueryTxns(q, cur[i], heap))
  /\ UNCHANGED <<world, io, asserts, aborted, live, origin, heap, ret, visits, endCalls>>

\* TClingMethodInfo::Next on a cursor that holds a fixed declaration, in a
\* build with assertions: assert(!fDecl && "This is not an iterator!")
\* ends the process.
AdvanceAsserts(i) ==
  /\ ~aborted
  /\ i \in live
  /\ cur[i].fDecl # NullDecl /\ asserts # "off"
  /\ asserts' = "on"
  /\ aborted' = TRUE
  /\ last' = Op("Next", {})
  /\ UNCHANGED <<world, io, live, origin, cur, heap, ret, visits, endCalls>>

Next ==
  \/ ConstructFromScope("a")
  \/ ConstructInvalid("a")
  \/ ConstructFixed("a")
  \/ Advance("a")
  \/ AdvanceAsserts("a")

Spec == Init /\ [][Next]_vars

\* Two cursors over a class: "a" is made from the scope, "b" is a copy.
\* The classes have methods and using-declarations of base methods and
\* implicit base constructors.
CopyMembers ==
  { s \in ClassSeqs(MaxNodes - 1) :
      \A k \in 1..Len(s) :
        \/ s[k] = FunctionD
        \/ /\ s[k].kind = "Using"
           /\ \A n \in 1..Len(s[k].shadows) :
                s[k].shadows[n] \in { Shadow(TRUE, "Constructor", TRUE, FALSE),
                                      Shadow(FALSE, "Method", FALSE, FALSE) } }

CopyScopes == { Scope("Class", <<s>>) : s \in CopyMembers }

InitCopy ==
  /\ world \in CopyScopes
  /\ io = Globals(TRUE)
  /\ asserts = "unobserved"
  /\ aborted = FALSE
  /\ live = {}
  /\ origin = [i \in Ids |-> "none"]
  /\ cur = [i \in Ids |-> Unborn]
  /\ heap = EmptyHeap
  /\ ret = [i \in Ids |-> -1]
  /\ visits = [i \in Ids |-> <<>>]
  /\ endCalls = [i \in Ids |-> 0]
  /\ last = Op("none", {})

NextCopy ==
  \/ ConstructFromScope("a")
  \/ CopyConstruct("b", "a")
  \/ Assign("b", "a")
  \/ Advance("a")
  \/ Advance("b")

SpecCopy == InitCopy /\ [][NextCopy]_vars

\* One cursor that is advanced and queried.  The scopes are the smaller
\* classes and translation units and, for every other way its functions
\* can be declared, a class with one method.
RECURSIVE ScopeWeight(_)
ScopeWeight(cs) == IF cs = <<>> THEN 0 ELSE SeqWeight(Head(cs)) + ScopeWeight(Tail(cs))

\* The return types: up to MaxLayers array, reference, pointer and member
\* pointer layers over int or const int.  A reference is the outermost
\* layer only, a function returns no array, and the const of an array is
\* that of its element.
MaxLayers == 2

InnerLayers ==
  { Layer("array", FALSE) } \cup
  { Layer(k, cq) : k \in {"pointer", "memberpointer"}, cq \in BOOLEAN }
OuterLayers == (InnerLayers \ { Layer("array", FALSE) }) \cup { Layer("reference", FALSE) }

LayerSeqs ==
  {<<>>} \cup
  UNION { { <<o>> \o s : o \in OuterLayers, s \in [1..n -> InnerLayers] } :
          n \in 0..(MaxLayers - 1) }

ReturnTypes ==
  { ls \o <<Layer("builtin", cq)>> : ls \in LayerSeqs, cq \in BOOLEAN }

AccessSpecifiers == {"public", "protected", "private"}

FnChoices ==
  { [DefaultFn EXCEPT !.undeduced = TRUE] } \cup
  { [DefaultFn EXCEPT !.returnType = qt] : qt \in ReturnTypes }

\* A class with one using-declaration, for every access specifier of the
\* using-declaration and of the functions.
UsingFnChoices ==
  { [DefaultFn EXCEPT !.access = a, !.usingAccess = u] :
      a \in AccessSpecifiers, u \in AccessSpecifiers }

UsingScopes ==
  { [Scope("Class", <<<<UsingD(sh)>>>>) EXCEPT !.fn = f] :
      sh \in ShadowSeqs(MaxNodes - 3), f \in UsingFnChoices }

QueryScopes ==
  { w \in ClassScopes \cup TUScopes : ScopeWeight(w.contexts) <= MaxNodes - 2 } \cup
  { [Scope("Class", <<<<FunctionD>>>>) EXCEPT !.fn = f] : f \in FnChoices } \cup
  UsingScopes

InitQuery ==
  /\ world \in QueryScopes
  /\ io = Globals(TRUE)
  /\ asserts = "unobserved"
  /\ aborted = FALSE
  /\ live = {}
  /\ origin = [i \in Ids |-> "none"]
  /\ cur = [i \in Ids |-> Unborn]
  /\ heap = EmptyHeap
  /\ ret = [i \in Ids |-> -1]
  /\ visits = [i \in Ids |-> <<>>]
  /\ endCalls = [i \in Ids |-> 0]
  /\ last = Op("none", {})

NextQuery ==
  \/ ConstructFromScope("a")
  \/ ConstructInvalid("a")
  \/ ConstructFixed("a")
  \/ Advance("a")
  \/ AdvanceAsserts("a")
  \/ Query("a")

SpecQuery == InitQuery /\ [][NextQuery]_vars

\* Two cursors: "a" is advanced, asked for its name and title and
\* re-initialised, its copy "b" is advanced only.  The scopes
\* are namespaces of functions without annotation; the functions at the
\* places astDecls were read from an AST file, the others from a header
\* where they have a comment.
CacheMembers ==
  { s \in ClassSeqs(MaxNodes - 2) :
      /\ s # <<>>
      /\ \A k \in 1..Len(s) : s[k] = FunctionD }

CacheFnChoices(s) ==
  { [DefaultFn EXCEPT !.astDecls = A] : A \in SUBSET (1..Len(s)) }

CacheScopes ==
  UNION { { [Scope("Namespace", <<s>>) EXCEPT !.fn = f] : f \in CacheFnChoices(s) } :
          s \in CacheMembers }

InitCache ==
  /\ world \in CacheScopes
  /\ io = Globals(TRUE)
  /\ asserts = "unobserved"
  /\ aborted = FALSE
  /\ live = {}
  /\ origin = [i \in Ids |-> "none"]
  /\ cur = [i \in Ids |-> Unborn]
  /\ heap = EmptyHeap
  /\ ret = [i \in Ids |-> -1]
  /\ visits = [i \in Ids |-> <<>>]
  /\ endCalls = [i \in Ids |-> 0]
  /\ last = Op("none", {})

NextCache ==
  \/ ConstructFromScope("a")
  \/ CopyConstruct("b", "a")
  \/ Advance("a")
  \/ Advance("b")
  \/ CachingQuery("a")
  \/ MethodInfoInit("a")

SpecCache == InitCache /\ [][NextCache]_vars

(***************************************************************************)
(* rootclingIO: names are added, and the dictionary file is closed.  No    *)
(* cursor exists.                                                          *)
(***************************************************************************)
NamesAdded(g) ==
  Len(g.gClassesToStore) + Len(g.gTypedefsToStore) +
  Len(g.gEnumsToStore) + Len(g.gAncestorPCMNames)

NoCursor ==
  UNCHANGED <<world, asserts, aborted, live, origin, cur, heap, ret, visits,
              endCalls, last>>

InitIO ==
  /\ world = Scope("Class", <<<<>>>>)
  /\ asserts = "unobserved"
  /\ aborted = FALSE
  /\ live = {}
  /\ origin = [i \in Ids |-> "none"]
  /\ cur = [i \in Ids |-> Unborn]
  /\ heap = EmptyHeap
  /\ ret = [i \in Ids |-> -1]
  /\ visits = [i \in Ids |-> <<>>]
  /\ endCalls = [i \in Ids |-> 0]
  /\ last = Op("none", {})
  /\ \E z \in BOOLEAN : io = Globals(z)

InitializeStreamerInfoROOTFile(filename) ==
  /\ io' = [io EXCEPT !.op = "InitializeStreamerInfoROOTFile",
                      !.gPCMFilename = filename]
  /\ NoCursor

\* AddStreamerInfoToROOTFile without its filter: every argument is stored.
AddStreamerInfoToROOTFile_NoFilter(normName) ==
  /\ NamesAdded(io) < MaxNames
  /\ io' = [io EXCEPT !.op = "AddStreamerInfoToROOTFile",
                      !.gClassesToStore = Append(@, normName.chars)]
  /\ NoCursor

AddStreamerInfoToROOTFile(normName) ==
  /\ NamesAdded(io) < MaxNames
  /\ io' = [io EXCEPT
              !.op = "AddStreamerInfoToROOTFile",
              !.gClassesToStore =
                 IF ~normName.null /\ normName.chars # <<>> /\ normName.chars[1] # "("
                 THEN Append(@, normName.chars)
                 ELSE @]
  /\ NoCursor

AddTypedefToROOTFile(tdname) ==
  /\ NamesAdded(io) < MaxNames
  /\ io' = [io EXCEPT !.op = "AddTypedefToROOTFile",
                      !.gTypedefsToStore = Append(@, tdname.chars)]
  /\ NoCursor

AddEnumToROOTFile(enumname) ==
  /\ NamesAdded(io) < MaxNames
  /\ io' = [io EXCEPT !.op = "AddEnumToROOTFile",
                      !.gEnumsToStore = Append(@, enumname.chars)]
  /\ NoCursor

AddAncestorPCMROOTFile(pcmName) ==
  /\ NamesAdded(io) < MaxNames
  /\ io' = [io EXCEPT !.op = "AddAncestorPCMROOTFile",
                      !.gAncestorPCMNames = Append(@, pcmName.chars)]
  /\ NoCursor

\* A call of CloseStreamerInfoROOTFile; whether the file can be created is
\* the file system's choice.
Close(writeEmptyRootPCM) ==
  \E zombie \in BOOLEAN :
    LET r == CloseStreamerInfoROOTFile(io, writeEmptyRootPCM, zombie)
    IN /\ io' = [io EXCEPT !.op = "CloseStreamerInfoROOTFile",
                           !.writeEmptyRootPCM = writeEmptyRootPCM,
                           !.zombie = zombie,
                           !.ret = r.ret,
                           !.file = r.file]
       /\ NoCursor

NextIO ==
  \/ \E filename \in Filenames : InitializeStreamerInfoROOTFile(filename)
  \/ \E normName \in ClassArgs : AddStreamerInfoToROOTFile(normName)
  \/ \E tdname \in TypedefArgs : AddTypedefToROOTFile(tdname)
  \/ \E enumname \in EnumArgs : AddEnumToROOTFile(enumname)
  \/ \E pcmName \in AncestorArgs : AddAncestorPCMROOTFile(pcmName)
  \/ \E writeEmptyRootPCM \in BOOLEAN : Close(writeEmptyRootPCM)

SpecIO == InitIO /\ [][NextIO]_vars

(***************************************************************************)
(* What the properties below are stated with.                              *)
(***************************************************************************)
\* CurrentDeclaration of cursor i
CurDecl(i) == GetDecl(cur[i], heap)

IsPrefix(s, t) == Len(s) <= Len(t) /\ SubSeq(t, 1, Len(s)) = s

RECURSIVE Flatten(_)
Flatten(ss) == IF ss = <<>> THEN <<>> ELSE Head(ss) \o Flatten(Tail(ss))

\* The declarations Next() reported for cursor i, in the order of the calls.
VisitedDecls(i) == [k \in 1..Len(visits[i]) |-> visits[i][k].decl]

\* Those of them reported while the outer position was on declaration u.
VisitedAt(i, u) ==
  LET vs == SelectSeq(visits[i], LAMBDA v : v.at = u) IN
  [k \in 1..Len(vs) |-> vs[k].decl]

\* Every DeclContext of the tree, and the handles of its declarations.
AllContexts ==
  { <<k>> : k \in 1..Len(world.contexts) } \cup
  UNION { { <<k, n>> : n \in { m \in 1..Len(world.contexts[k]) :
                                 world.contexts[k][m].kind = "Namespace" } } :
          k \in 1..Len(world.contexts) }

HandlesOf(ref) == [n \in 1..Len(DeclsOf(ref)) |-> Handle(ref, n, 0, FALSE)]

AllHandles == UNION { { HandlesOf(ref)[n] : n \in 1..Len(DeclsOf(ref)) } : ref \in AllContexts }

HasKind(K) == \E d \in AllHandles : DeclAt(d).kind \in K

UsingHandles == { d \in AllHandles : DeclAt(d).kind = "Using" }

\* The contexts of the scope in the order an enumeration reaches them:
\* the collected ones, then the inline namespaces declared directly in the
\* translation unit.
ScopeContexts ==
  [k \in 1..Len(world.contexts) |-> <<k>>] \o
  (IF world.kind = "TU"
   THEN LET ns == SelectSeq(HandlesOf(<<1>>),
                            LAMBDA d : DeclAt(d).kind = "Namespace" /\ DeclAt(d).inline)
        IN [k \in 1..Len(ns) |-> <<1, ns[k].idx>>]
   ELSE <<>>)

\* The non-deleted plain functions of the scope, in that order.
PlainFunctions ==
  Flatten([k \in 1..Len(ScopeContexts) |->
             SelectSeq(HandlesOf(ScopeContexts[k]),
                       LAMBDA d : DeclAt(d).kind = "Function" /\ ~DeclAt(d).deleted)])

\* What the j-th shadow of using-declaration u stands for: nothing for an
\* implicit base constructor or a target that is no function, the
\* inheriting constructor for another base constructor, else the target.
ResolvedTarget(u, j) ==
  IF j > Len(DeclAt(u).shadows) THEN NullDecl
  ELSE LET s == DeclAt(u).shadows[j] IN
       IF s.target = "Constructor"
       THEN IF s.implicit THEN NullDecl ELSE Handle(u.ctx, u.idx, j, TRUE)
       ELSE IF s.target \in {"Method", "Function"} THEN Handle(u.ctx, u.idx, j, FALSE)
       ELSE NullDecl

\* The non-null resolved targets of using-declaration u, in shadow order.
NonNullTargets(u) ==
  SelectSeq([j \in 1..Len(DeclAt(u).shadows) |-> ResolvedTarget(u, j)],
            LAMBDA d : d # NullDecl)

(***************************************************************************)
(* C1.                                                                     *)
(***************************************************************************)
\* C1: over a scope with no using-declaration and no function template the
\* calls of Next() that return 1 report the non-deleted plain functions of
\* the scope, each once and in the order of the scope: what is reported so
\* far is always a prefix of them, and all of them once Next() returns 0.
C1_PlainScopeVisitsEachFunctionOnce ==
  (origin["a"] = "scope" /\ ~HasKind({"Using", "FunctionTemplate"}))
    => /\ IsPrefix(VisitedDecls("a"), PlainFunctions)
       /\ ret["a"] = 0 => VisitedDecls("a") = PlainFunctions

\* A finished enumeration of two functions with a deleted function and
\* another declaration among them.
C1_Witness ==
  /\ origin["a"] = "scope" /\ ~HasKind({"Using", "FunctionTemplate"})
  /\ ret["a"] = 0
  /\ Len(visits["a"]) = 2
  /\ \E d \in AllHandles : DeclAt(d).deleted
  /\ HasKind({"Other", "Namespace"})

(***************************************************************************)
(* C2.                                                                     *)
(***************************************************************************)
\* C2: once Next() has returned 0 on a cursor made from a scope, the last
\* Next() returned 0 and GetDecl() is null, whatever number of Next() calls
\* followed.
C2_ExhaustionIsTerminal ==
  \A i \in live :
    (origin[i] = "scope" /\ endCalls[i] >= 1)
      => ret[i] = 0 /\ CurDecl(i) = NullDecl

\* Next() was called twice or more after the end of a non-empty enumeration.
C2_Witness ==
  origin["a"] = "scope" /\ endCalls["a"] >= 2 /\ Len(visits["a"]) >= 1

(***************************************************************************)
(* C3.                                                                     *)
(***************************************************************************)
\* C3: a using-declaration without shadows makes no visit: over a scope
\* whose using-declarations all have no shadow (and that has no template)
\* Next() never returns 1 on a using-declaration and reports the plain
\* functions of the scope, as it does for the scope without them.
C3_EmptyUsingMakesNoVisit ==
  (/\ origin["a"] = "scope"
   /\ ~HasKind({"FunctionTemplate"})
   /\ \A u \in UsingHandles : DeclAt(u).shadows = <<>>)
    => /\ ret["a"] = 1 => ~IsA(cur["a"].fIter, "Using")
       /\ IsPrefix(VisitedDecls("a"), PlainFunctions)
       /\ ret["a"] = 0 => VisitedDecls("a") = PlainFunctions

(***************************************************************************)
(* C4.                                                                     *)
(***************************************************************************)
\* C4 as claimed: the visits Next() reports on a using-declaration are its
\* K non-null resolved targets in shadow order and nothing else, wherever
\* the shadows that resolve to null stand in the list, the first place
\* included.
C4_OnlyNonNullTargetsVisited ==
  origin["a"] = "scope"
    => \A u \in UsingHandles :
         /\ IsPrefix(VisitedAt("a", u), NonNullTargets(u))
         /\ ret["a"] = 0 => VisitedAt("a", u) = NonNullTargets(u)

\* What Next() reports on using-declaration u: the first shadow is not
\* checked, so a null first result (or no shadow at all) is one visit with
\* a null GetDecl(); then the non-null resolved targets.
UsingVisits(u) ==
  (IF ResolvedTarget(u, 1) = NullDecl THEN <<NullDecl>> ELSE <<>>) \o NonNullTargets(u)

\* C4 amended: the visits Next() reports on a using-declaration are its K
\* non-null resolved targets in shadow order, after one visit with a null
\* GetDecl() when its first shadow resolves to null or it has no shadow;
\* a null result at a later place makes no visit.
C4_NonNullTargetsAfterUncheckedFirst ==
  origin["a"] = "scope"
    => \A u \in UsingHandles :
         /\ IsPrefix(VisitedAt("a", u), UsingVisits(u))
         /\ ret["a"] = 0 => VisitedAt("a", u) = UsingVisits(u)

\* A finished enumeration over a using-declaration whose first shadow
\* resolves to null and whose second to a function.
C4_Witness ==
  /\ origin["a"] = "scope" /\ ret["a"] = 0
  /\ \E u \in UsingHandles :
       /\ Len(DeclAt(u).shadows) = 2
       /\ ResolvedTarget(u, 1) = NullDecl
       /\ VisitedAt("a", u) = <<NullDecl, Handle(u.ctx, u.idx, 2, FALSE)>>

(***************************************************************************)
(* C6.                                                                     *)
(***************************************************************************)
\* C6: GetDecl() of an iterating cursor is the template specialization if
\* one is held; else, if a UsingIterator is held, the resolved target of
\* the shadow it stands on (null when that resolves to null or no shadow
\* is left); else the declaration the outer iterator stands on.
C6_CurrentDeclarationPriority ==
  \A i \in live :
    origin[i] = "scope"
      => CurDecl(i) =
           IF cur[i].fTemplateSpec # NullDecl THEN cur[i].fTemplateSpec
           ELSE IF cur[i].fUsingIter # NullPtr
           THEN ResolvedTarget(heap[cur[i].fUsingIter].udecl, heap[cur[i].fUsingIter].pos)
           ELSE cur[i].fIter

\* A cursor inside a using-declaration: GetDecl() is a shadow target and
\* not the using-declaration the outer iterator stands on.
C6_Witness ==
  /\ origin["a"] = "scope" /\ ret["a"] = 1
  /\ cur["a"].fUsingIter # NullPtr
  /\ heap[cur["a"].fUsingIter].pos = 2
  /\ CurDecl("a") # NullDecl
  /\ CurDecl("a") # cur["a"].fIter

(***************************************************************************)
(* C7.                                                                     *)
(***************************************************************************)
\* C7 as claimed: on a cursor that holds a fixed declaration Next() returns
\* 0 and changes nothing of the cursor.
C7_AdvanceOnFixedIsNoOp ==
  [][origin["a"] = "fixed"
       => ~aborted' /\ ret'["a"] = 0 /\ cur'["a"] = cur["a"]]_vars

\* C7 amended: on a cursor that holds a fixed declaration, a build with
\* assertions stops at assert(!fDecl); a build without them returns 0 and
\* GetDecl() is the stored declaration before and after, but the call is
\* no no-op: it clears the name cache and, the first time, clears
\* fFirstTime and adds one to fContextIdx.
C7_AdvanceOnFixedKeepsDeclaration ==
  [][origin["a"] = "fixed"
       => \/ aborted' /\ cur' = cur /\ ret' = ret
          \/ /\ ~aborted' /\ ret'["a"] = 0
             /\ CurDecl("a") = cur["a"].fDecl
             /\ GetDecl(cur'["a"], heap') = cur["a"].fDecl
             /\ cur'["a"] = [cur["a"] EXCEPT
                               !.fNameCache = "",
                               !.fFirstTime = FALSE,
                               !.fContextIdx = IF cur["a"].fFirstTime THEN @ + 1 ELSE @]]_vars

\* Next() was called twice on a fixed cursor.
C7_Witness ==
  /\ origin["a"] = "fixed" /\ endCalls["a"] >= 2 /\ ret["a"] = 0
  /\ ~cur["a"].fFirstTime /\ cur["a"].fContextIdx = 1
  /\ CurDecl("a") # NullDecl

(***************************************************************************)
(* C8.                                                                     *)
(***************************************************************************)
\* C8: whenever GetDecl() of a cursor is null, every query returns its
\* sentinel: NArg and NDefaultArg -1, Property and ExtraProperty 0,
\* GetMangledName the empty string, Name, TypeName and Title a null
\* pointer, GetDeclId the null id and Type the null type.
C8_QueriesOnEmptyCursorReturnSentinels ==
  \A i \in live :
    CurDecl(i) = NullDecl
      => /\ NArg(cur[i], heap) = -1
         /\ NDefaultArg(cur[i], heap) = -1
         /\ Property(cur[i], heap) = {}
         /\ ExtraProperty(cur[i], heap) = {}
         /\ GetMangledName(cur[i], heap) = ""
         /\ Name(cur[i], heap).ret = NullCStr
         /\ TypeName(cur[i], heap) = NullCStr
         /\ Title(cur[i], heap).ret = NullCStr
         /\ GetDeclId(cur[i], heap) = NullDecl
         /\ Type(cur[i], heap) = NullType

\* Next() returned 1 on a shadow that resolves to null.
C8_Witness ==
  /\ origin["a"] = "scope" /\ ret["a"] = 1
  /\ cur["a"].fUsingIter # NullPtr
  /\ ~UsingAtEnd(heap[cur["a"].fUsingIter])
  /\ CurDecl("a") = NullDecl

(***************************************************************************)
(* C9.                                                                     *)
(***************************************************************************)
\* C9: a cursor made from a null or invalid scope has no context, its
\* GetDecl() is null, and Next() never returned 1 on it nor stopped the
\* process.
C9_InvalidScopeGivesInvalidCursor ==
  \A i \in live :
    origin[i] = "invalid"
      => /\ cur[i].fContexts = <<>>
         /\ CurDecl(i) = NullDecl
         /\ ret[i] \in {-1, 0}
         /\ Len(visits[i]) = 0
         /\ ~aborted

\* Next() was called twice on such a cursor.
C9_Witness == origin["a"] = "invalid" /\ endCalls["a"] >= 2 /\ ret["a"] = 0

(***************************************************************************)
(* C10.                                                                    *)
(***************************************************************************)
\* C10: whenever Next() returned 1 on a cursor made from a scope, GetDecl()
\* is no deleted function.
C10_DeletedNeverSurfaced ==
  \A i \in live :
    (origin[i] = "scope" /\ ret[i] = 1 /\ CurDecl(i) # NullDecl)
      => ~IsDeleted(CurDecl(i))

(***************************************************************************)
(* C5.                                                                     *)
(***************************************************************************)
\* Where cursor i stands: the context index, the outer position, the
\* using-declaration and shadow place of its UsingIterator, and GetDecl().
Position(i) ==
  << cur[i].fContextIdx, cur[i].fIter,
     IF cur[i].fUsingIter = NullPtr THEN <<>>
     ELSE <<heap[cur[i].fUsingIter].udecl, heap[cur[i].fUsingIter].pos>>,
     CurDecl(i) >>

\* C5: of two cursors of which one is a copy of the other (by the copy
\* constructor or by assignment), a Next() on one leaves where the other
\* stands and its GetDecl() as they were, and the two never hold the same
\* UsingIterator.
C5_CopiesAdvanceIndependently ==
  [][\A i \in Ids : \A j \in Ids \ {i} :
       /\ (Advance(i) /\ j \in live) => Position(j)' = Position(j)
       /\ ({i, j} \subseteq live' /\ cur'[i].fUsingIter # NullPtr)
            => cur'[i].fUsingIter # cur'[j].fUsingIter]_vars

\* "b" was copied from "a" on the first shadow of a using-declaration and
\* has not moved; "a" has gone on to the second shadow.
C5_Witness ==
  /\ origin["b"] = "copy" /\ ret["b"] = -1
  /\ cur["a"].fUsingIter # NullPtr /\ cur["b"].fUsingIter # NullPtr
  /\ heap[cur["b"].fUsingIter].pos = 1
  /\ heap[cur["a"].fUsingIter].pos = 2
  /\ heap[cur["a"].fUsingIter].udecl = heap[cur["b"].fUsingIter].udecl
  /\ CurDecl("a") # CurDecl("b")

(***************************************************************************)
(* C11.                                                                    *)
(***************************************************************************)
TemplateHandles == { d \in AllHandles : DeclAt(d).kind = "FunctionTemplate" }

\* C11 as claimed: a function template whose parameters all have defaults
\* and for which a concrete non-deleted function can be looked up is one
\* visit of a full enumeration, with a non-null GetDecl().
C11_InstantiableTemplateVisitedOnce ==
  (origin["a"] = "scope" /\ ret["a"] = 0)
    => \A t \in TemplateHandles :
         DeclAt(t).defaults
           => Len(VisitedAt("a", t)) = 1 /\ VisitedAt("a", t)[1] # NullDecl

\* C11 amended: a function template makes no visit, whether or not its
\* parameters all have defaults and a concrete function can be looked up:
\* over a scope with templates and no using-declaration Next() reports the
\* non-deleted plain functions of the scope and nothing else.
C11_TemplatesMakeNoVisit ==
  (origin["a"] = "scope" /\ HasKind({"FunctionTemplate"}) /\ ~HasKind({"Using"}))
    => /\ IsPrefix(VisitedDecls("a"), PlainFunctions)
       /\ ret["a"] = 0 => VisitedDecls("a") = PlainFunctions

\* A finished enumeration of a scope with an instantiable template and a
\* function after it.
C11_Witness ==
  /\ origin["a"] = "scope" /\ ret["a"] = 0 /\ ~HasKind({"Using"})
  /\ \E t \in TemplateHandles :
       /\ DeclAt(t).defaults
       /\ \E v \in 1..Len(visits["a"]) :
            visits["a"][v].at.ctx = t.ctx /\ visits["a"][v].at.idx > t.idx

(***************************************************************************)
(* C12.                                                                    *)
(***************************************************************************)
\* C12: no cursor ever holds a template specialization, and Next() never
\* returned 1 with the outer position on a function template.
C12_NoTemplateEverInstantiated ==
  \A i \in live :
    /\ cur[i].fTemplateSpec = NullDecl
    /\ ret[i] = 1 => ~IsA(cur[i].fIter, "FunctionTemplate")

\* Next() returned 1 after the cursor went over a template with a
\* parameter without default.
C12_Witness ==
  /\ origin["a"] = "scope" /\ ret["a"] = 1
  /\ \E t \in TemplateHandles :
       /\ ~DeclAt(t).defaults
       /\ cur["a"].fIter # NullDecl
       /\ cur["a"].fIter.ctx = t.ctx /\ cur["a"].fIter.idx > t.idx

(***************************************************************************)
(* C13.                                                                    *)
(***************************************************************************)
\* Where cursor i stands, with everything the next Next() reads.
Where(i) ==
  << cur[i].fContexts, cur[i].fContextIdx, cur[i].fIter,
     IF cur[i].fUsingIter = NullPtr THEN <<>>
     ELSE <<heap[cur[i].fUsingIter].udecl, heap[cur[i].fUsingIter].pos>>,
     cur[i].fTemplateSpec, cur[i].fAccessDecl, cur[i].fFirstTime >>

\* C13: a query of the current declaration leaves where the cursor stands
\* (contexts, context index, outer position, UsingIterator and its place,
\* template specialization, access declaration, fFirstTime), the
\* UsingIterator objects and GetDecl() as they were; and with queries made
\* between the calls of Next(), Next() reports what it reports without
\* them: the plain functions of a scope without using-declarations and
\* templates, and for a using-declaration its targets.
C13_QueriesKeepPosition ==
  /\ [](C1_PlainScopeVisitsEachFunctionOnce /\ C4_NonNullTargetsAfterUncheckedFirst)
  /\ [][\A i \in Ids :
          Query(i) => /\ Where(i)' = Where(i)
                      /\ heap' = heap
                      /\ GetDecl(cur'[i], heap') = CurDecl(i)]_vars

\* Name() and Title() were called on a shadow target of a
\* using-declaration, after a Next() that returned 1.
C13_Witness ==
  /\ origin["a"] = "scope" /\ ret["a"] = 1
  /\ cur["a"].fUsingIter # NullPtr
  /\ ~UsingAtEnd(heap[cur["a"].fUsingIter])
  /\ cur["a"].fNameCache # "" /\ cur["a"].fTitle # ""
  /\ last.op = "Title"

(***************************************************************************)
(* C14.                                                                    *)
(***************************************************************************)
\* C14: every PushTransactionRAII of a cursor operation is constructed
\* while that operation holds gInterpreterMutex.
C14_TransactionsOnlyUnderLock == FALSE \notin last.txns

(***************************************************************************)
(* C15, C16: the result of CloseStreamerInfoROOTFile and the file it       *)
(* leaves.                                                                 *)
(***************************************************************************)
JustClosed == io.op = "CloseStreamerInfoROOTFile"

ClassResolved(n) ==
  LET cl == TClassGetClass(n)
  IN /\ ~cl.null
     /\ cl.hasDataMembers
     /\ \A k \in 1..Len(cl.dataMembers) :
          (cl.dataMembers[k].persistent /\ cl.classVersion # 0)
            => ~IsUnsupportedUniquePointer(cl.dataMembers[k], io.isUniquePtrOffsetZero)
TypedefResolved(n) == ~FindType(n).null
EnumResolved(n) == FindEnum(n).ok /\ ~FindEnum(n).null

AllResolved ==
  /\ \A k \in 1..Len(io.gClassesToStore) : ClassResolved(io.gClassesToStore[k])
  /\ \A k \in 1..Len(io.gTypedefsToStore) : TypedefResolved(io.gTypedefsToStore[k])
  /\ \A k \in 1..Len(io.gEnumsToStore) : EnumResolved(io.gEnumsToStore[k])

\* C15: CloseStreamerInfoROOTFile returns true exactly when every name of
\* the class, typedef and enum lists is resolved with the metadata it needs
\* and the file could be created, whether or not it writes an empty file.
C15_FailureIffUnresolvedOrNoFile ==
  JustClosed => (io.ret <=> (AllResolved /\ ~io.zombie))

KeysOf(file) == [k \in 1..Len(file) |-> file[k].key]
SnapshotKeys == <<"__ProtoClasses", "__Typedefs", "__Enums", "__AncestorPCMNames">>

\* C16: when CloseStreamerInfoROOTFile has returned false the file holds
\* none of the four records, and when it has returned true without
\* writeEmptyRootPCM the file holds the four of them in the order
\* __ProtoClasses, __Typedefs, __Enums, __AncestorPCMNames.
C16_AllOrNothing ==
  JustClosed =>
    /\ ~io.ret => \A k \in 1..Len(io.file) :
                    io.file[k].key \notin { SnapshotKeys[n] : n \in 1..4 }
    /\ (io.ret /\ ~io.writeEmptyRootPCM) => KeysOf(io.file) = SnapshotKeys

\* A close that returned false at the enums, after a class to store was
\* resolved.
C16_Witness ==
  /\ JustClosed
  /\ ~io.writeEmptyRootPCM
  /\ ~io.ret
  /\ io.gClassesToStore = <<<<"A">>>>
  /\ \E k \in 1..Len(io.gEnumsToStore) : ~EnumResolved(io.gEnumsToStore[k])


(***************************************************************************)
(* C17, C18, C19: the bits of Property and ExtraProperty.                  *)
(***************************************************************************)
\* The current declaration of cursor i is invalid or a deleted function.
InvalidOrDeleted(i) ==
  \/ ~IsValid(cur[i], heap)
  \/ IsDeleted(GetMethodDecl(cur[i], heap))

\* C17: Property() is the empty bitmask exactly when the current declaration
\* is invalid or a deleted function, and holds kIsCompiled otherwise;
\* ExtraProperty() is the empty bitmask when the current declaration is
\* invalid or a deleted function.
C17_EmptyIffInvalidOrDeleted ==
  \A i \in live :
    /\ (Property(cur[i], heap) = {}) <=> InvalidOrDeleted(i)
    /\ ~InvalidOrDeleted(i) => "kIsCompiled" \in Property(cur[i], heap)
    /\ InvalidOrDeleted(i) => ExtraProperty(cur[i], heap) = {}

\* Property() was called on a deleted method that a using-declaration
\* yielded.
C17_Witness ==
  /\ "a" \in live
  /\ last.op = "Property"
  /\ IsValid(cur["a"], heap)
  /\ IsDeleted(GetMethodDecl(cur["a"], heap))

\* The layers of a type above its base type.
LayersOf(qt) == SubSeq(qt, 1, Len(qt) - 1)

PointerToConstInt == <<Layer("pointer", FALSE), Layer("builtin", TRUE)>>

\* C18: for a return type of array, reference, pointer and member-pointer
\* layers over a base type, Property() holds kIsPointer iff a layer is a
\* pointer, kIsReference iff a layer is a reference, kIsConstPointer iff a
\* pointer layer is const, and kIsConstant when the outermost type or the
\* base type is const; for pointer-to-const-int it holds kIsPointer and
\* kIsConstant and not kIsReference.
C18_ReturnTypeBits ==
  \A i \in live :
    ~InvalidOrDeleted(i) =>
      LET qt == AttrsOf(GetMethodDecl(cur[i], heap)).returnType
          ls == LayersOf(qt)
          P == Property(cur[i], heap)
      IN /\ "kIsPointer" \in P <=> \E k \in 1..Len(ls) : ls[k].kind = "pointer"
         /\ "kIsReference" \in P <=> \E k \in 1..Len(ls) : ls[k].kind = "reference"
         /\ "kIsConstPointer" \in P <=>
              \E k \in 1..Len(ls) : ls[k].kind = "pointer" /\ ls[k].const
         /\ (qt[1].const \/ qt[Len(qt)].const) => "kIsConstant" \in P
         /\ qt = PointerToConstInt =>
              /\ {"kIsPointer", "kIsConstant"} \subseteq P
              /\ "kIsReference" \notin P

\* Property() was called on a method that returns a pointer to const int.
C18_Witness ==
  /\ "a" \in live
  /\ last.op = "Property"
  /\ ~InvalidOrDeleted("a")
  /\ AttrsOf(GetMethodDecl(cur["a"], heap)).returnType = PointerToConstInt

AccessBits == {"kIsPublic", "kIsProtected", "kIsPrivate"}
AccessBit(a) ==
  IF a = "public" THEN "kIsPublic"
  ELSE IF a = "protected" THEN "kIsProtected"
  ELSE "kIsPrivate"

\* Next() returned 1 for cursor i and its current declaration is a shadow
\* target of a using-declaration.
YieldedThroughUsing(i) ==
  /\ ret[i] = 1
  /\ cur[i].fUsingIter # NullPtr
  /\ ~UsingAtEnd(heap[cur[i].fUsingIter])
  /\ ~InvalidOrDeleted(i)

\* C19: for a declaration that Next() yields through a using-declaration,
\* the access bit of Property() is the one of the access specifier of the
\* using-declaration, whatever the access of the target is.
C19_UsingAccessGoverns ==
  \A i \in live :
    YieldedThroughUsing(i) =>
      Property(cur[i], heap) \cap AccessBits = { AccessBit(world.fn.usingAccess) }

\* Property() was called on a private method that a public
\* using-declaration yielded.
C19_Witness ==
  /\ "a" \in live
  /\ YieldedThroughUsing("a")
  /\ last.op = "Property"
  /\ world.fn.access = "private"
  /\ world.fn.usingAccess = "public"


(***************************************************************************)
(* C20: the list of contexts and the context index.                        *)
(***************************************************************************)
\* The place of context ref in the list of contexts of cursor i (0: none).
ContextPlace(i, ref) ==
  LET ks == { k \in 1..Len(cur[i].fContexts) : cur[i].fContexts[k] = ref }
  IN IF ks = {} THEN 0 ELSE CHOOSE k \in ks : \A m \in ks : k <= m

\* The declarations Next() reported for cursor i were reported in the order
\* of their contexts in the list, and the outer position is in the context
\* the index names.
VisitsInContextOrder(i) ==
  /\ \A m, n \in 1..Len(visits[i]) :
       m < n => /\ ContextPlace(i, visits[i][m].at.ctx) > 0
                /\ ContextPlace(i, visits[i][m].at.ctx)
                     <= ContextPlace(i, visits[i][n].at.ctx)
  /\ cur[i].fIter # NullDecl =>
       /\ cur[i].fContextIdx < Len(cur[i].fContexts)
       /\ cur[i].fIter.ctx = cur[i].fContexts[cur[i].fContextIdx + 1]

\* C20: for a cursor constructed from a scope, a step keeps the contexts the
\* list holds in their places and only appends to them, and does not
\* lower the context index; the outer position is in the context the index
\* names, and no declaration of an earlier context of the list is reported
\* after a declaration of a later one.
C20_ContextsGrowAndAreEnteredInOrder ==
  /\ [](\A i \in live : origin[i] = "scope" => VisitsInContextOrder(i))
  /\ [][\A i \in live \cap live' :
          (origin[i] = "scope" /\ origin'[i] = "scope")
            => /\ IsPrefix(cur[i].fContexts, cur'[i].fContexts)
               /\ cur'[i].fContextIdx >= cur[i].fContextIdx]_vars

\* An inline namespace of the translation unit was appended and entered,
\* after a function of the translation unit was reported and before one of
\* the namespace was.
C20_Witness ==
  /\ origin["a"] = "scope"
  /\ Len(cur["a"].fContexts) = 2
  /\ cur["a"].fContextIdx = 1
  /\ Len(visits["a"]) >= 2
  /\ visits["a"][1].at.ctx = cur["a"].fContexts[1]
  /\ visits["a"][Len(visits["a"])].at.ctx = cur["a"].fContexts[2]
  /\ Len(cur["a"].fContexts[2]) = 2

(***************************************************************************)
(* C21: the sources of the current declaration.                            *)
(***************************************************************************)
\* C21: no cursor has a UsingIterator and holds a template specialization
\* at once, so GetDecl() reads one of fTemplateSpec, the UsingIterator and
\* fIter.
C21_UsingIterOrTemplateSpecNotBoth ==
  \A i \in live :
    ~(cur[i].fUsingIter # NullPtr /\ cur[i].fTemplateSpec # NullDecl)

\* Next() went on from a using-declaration without shadows, whose
\* UsingIterator the cursor still has, to a function template whose
\* parameters all have defaults.
C21_Witness ==
  /\ origin["a"] = "scope"
  /\ cur["a"].fUsingIter # NullPtr
  /\ UsingAtEnd(heap[cur["a"].fUsingIter])
  /\ \E k \in 1..(Len(world.contexts[1]) - 1) :
       /\ world.contexts[1][k].kind = "Using"
       /\ world.contexts[1][k + 1] = FunctionTemplateD(TRUE)
       /\ cur["a"].fContextIdx = 0
       /\ (cur["a"].fIter = NullDecl \/ cur["a"].fIter.idx > k + 1)

(***************************************************************************)
(* C22: where construction leaves the cursor, and the first Next().        *)
(***************************************************************************)
\* The declarations of the scope in the order an enumeration reaches them.
DeclsInOrder ==
  Flatten([k \in 1..Len(ScopeContexts) |-> HandlesOf(ScopeContexts[k])])

\* The declarations InternalNext returns 1 on: functions that are not
\* deleted, and using-declarations.
Stops ==
  SelectSeq(DeclsInOrder,
            LAMBDA d : \/ DeclAt(d).kind = "Function" /\ ~DeclAt(d).deleted
                       \/ DeclAt(d).kind = "Using")

\* The valid declarations of the scope: its functions that are not
\* deleted, and for a using-declaration its resolved targets that are not
\* deleted.
ValidTargets(u) ==
  SelectSeq([j \in 1..Len(DeclAt(u).shadows) |-> ResolvedTarget(u, j)],
            LAMBDA t : t # NullDecl /\ ~IsDeleted(t))

ValidDecls ==
  Flatten([k \in 1..Len(Stops) |->
             IF DeclAt(Stops[k]).kind = "Using" THEN ValidTargets(Stops[k])
             ELSE <<Stops[k]>>])

\* Cursor i was constructed from the scope and Next() was not called yet.
FreshFromScope(i) == i \in live /\ origin[i] = "scope" /\ ret[i] = -1

\* C22 as claimed: construction leaves the cursor on the first valid
\* declaration of the scope, or exhausted if it has none.
C22_ConstructionLandsOnFirstValid ==
  \A i \in Ids :
    FreshFromScope(i) =>
      IF ValidDecls = <<>> THEN CurDecl(i) = NullDecl /\ cur[i].fIter = NullDecl
      ELSE CurDecl(i) = ValidDecls[1]

\* C22: construction leaves the cursor on the first declaration of the
\* scope that is a function not deleted or a using-declaration, whose
\* first shadow is not looked at (GetDecl() is what it resolves to, null
\* included), or exhausted if there is none; the first Next() then returns
\* 1 exactly if the cursor is not exhausted, and leaves the outer
\* position and GetDecl() as construction left them.
C22_FirstNextStaysWhereConstructionLanded ==
  /\ [](\A i \in Ids :
          FreshFromScope(i) =>
            IF Stops = <<>> THEN cur[i].fIter = NullDecl /\ CurDecl(i) = NullDecl
            ELSE /\ cur[i].fIter = Stops[1]
                 /\ CurDecl(i) = IF DeclAt(Stops[1]).kind = "Using"
                                 THEN ResolvedTarget(Stops[1], 1)
                                 ELSE Stops[1])
  /\ [][\A i \in Ids :
          (FreshFromScope(i) /\ ret'[i] # -1)
            => /\ ret'[i] = IF cur[i].fIter = NullDecl THEN 0 ELSE 1
               /\ cur'[i].fIter = cur[i].fIter
               /\ GetDecl(cur'[i], heap') = CurDecl(i)]_vars

\* The first Next() returned 1 on the first shadow target of a
\* using-declaration that a deleted function precedes.
C22_Witness ==
  /\ origin["a"] = "scope"
  /\ ret["a"] = 1 /\ Len(visits["a"]) = 1
  /\ Len(world.contexts[1]) >= 2
  /\ world.contexts[1][1] = DeletedFunctionD
  /\ cur["a"].fIter = Handle(<<1>>, 2, 0, FALSE)
  /\ DeclAt(cur["a"].fIter).kind = "Using"
  /\ CurDecl("a") = Handle(<<1>>, 2, 1, FALSE)

(***************************************************************************)
(* C23: the current declaration on a plain function.                       *)
(***************************************************************************)
\* C23: when Next() has returned 1 with the outer position on a function
\* that is not deleted, GetDecl() is that function, whatever declarations
\* came before it.
C23_PlainFunctionIsCurrent ==
  \A i \in live :
    (/\ origin[i] = "scope" /\ ret[i] = 1
     /\ IsA(cur[i].fIter, "Function") /\ ~IsDeleted(cur[i].fIter))
      => CurDecl(i) = cur[i].fIter

(***************************************************************************)
(* C24: the UsingIterator and fAccessDecl.                                 *)
(***************************************************************************)
\* A cursor has a UsingIterator only while its outer position is on the
\* using-declaration the UsingIterator was made for.
UsingIterOnlyOnItsDecl(i) ==
  cur[i].fUsingIter # NullPtr => cur[i].fIter = heap[cur[i].fUsingIter].udecl

\* fAccessDecl is set exactly if the cursor has a UsingIterator.
AccessDeclIffUsingIter(i) ==
  cur[i].fAccessDecl # NullDecl <=> cur[i].fUsingIter # NullPtr

\* C24: once Next() has moved the outer position past a using-declaration,
\* the cursor has no UsingIterator and fAccessDecl is null; and fAccessDecl
\* is set exactly if the cursor has a UsingIterator.
C24_UsingIterAndAccessDeclDiscarded ==
  \A i \in live : UsingIterOnlyOnItsDecl(i) /\ AccessDeclIffUsingIter(i)

(***************************************************************************)
(* C25: inline namespaces.                                                 *)
(***************************************************************************)
\* The contexts cursor i has appended to the collected ones.
Appended(i) ==
  SubSeq(cur[i].fContexts, Len(world.contexts) + 1, Len(cur[i].fContexts))

\* The inline namespaces declared directly in the translation unit, as
\* contexts, in declaration order.
InlineNamespacesOfTU ==
  SubSeq(ScopeContexts, Len(world.contexts) + 1, Len(ScopeContexts))

\* The places in visits[i] of the visits made on declaration d.
VisitsOn(i, d) == { m \in 1..Len(visits[i]) : visits[i][m].at = d }

\* C25: the contexts a cursor has appended are inline namespaces declared
\* directly in the translation unit, each appended once; Next() reports no
\* visit on a namespace; and when the enumeration has ended every such
\* namespace was appended, and each function of it that is not deleted was
\* reported once, after every visit made in a context before it in the list.
C25_InlineNamespacesOfTUAppendedOnce ==
  \A i \in live :
    origin[i] = "scope" =>
      /\ IsPrefix(Appended(i), InlineNamespacesOfTU)
      /\ \A k \in 1..Len(Appended(i)) :
           /\ world.kind = "TU"
           /\ Appended(i)[k][1] = 1
           /\ DeclsOf(<<1>>)[Appended(i)[k][2]].kind = "Namespace"
           /\ DeclsOf(<<1>>)[Appended(i)[k][2]].inline
           /\ \A j \in 1..Len(Appended(i)) : j # k => Appended(i)[j] # Appended(i)[k]
      /\ \A m \in 1..Len(visits[i]) : DeclAt(visits[i][m].at).kind # "Namespace"
      /\ ret[i] = 0 =>
           /\ Appended(i) = InlineNamespacesOfTU
           /\ \A k \in 1..Len(Appended(i)) :
                \A n \in 1..Len(DeclsOf(Appended(i)[k])) :
                  LET d == Handle(Appended(i)[k], n, 0, FALSE) IN
                  (DeclAt(d).kind = "Function" /\ ~DeclAt(d).deleted) =>
                    /\ Cardinality(VisitsOn(i, d)) = 1
                    /\ \A m \in VisitsOn(i, d) :
                         /\ visits[i][m].decl = d
                         /\ \A e \in 1..Len(visits[i]) :
                              ContextPlace(i, visits[i][e].at.ctx)
                                < ContextPlace(i, d.ctx) => e < m

\* A finished enumeration of a translation unit with an inline namespace
\* that has a function and is followed by a function of the translation
\* unit.
C25_Witness ==
  /\ origin["a"] = "scope" /\ ret["a"] = 0
  /\ world = Scope("TU", <<<<NamespaceD(TRUE, <<FunctionD>>), FunctionD>>>>)
  /\ Len(visits["a"]) = 2
  /\ Appended("a") = <<<<1, 1>>>>

(***************************************************************************)
(* C26: the enumeration ends.                                              *)
(***************************************************************************)
\* The number of declarations and shadows of the scope.
TreeSize == ScopeWeight(world.contexts)

\* The number of Next() calls made on cursor i.
Calls(i) == Len(visits[i]) + endCalls[i]

\* C26: on a cursor constructed from a scope every call of Next() returns,
\* with 1 and one more visit or with 0; it has returned 1 at most as many
\* times as the scope has declarations and shadows, so a caller that goes
\* on calling Next() gets 0 after at most that many calls and one.
C26_EnumerationEnds ==
  /\ [](\A i \in live :
          origin[i] = "scope" =>
            /\ Len(visits[i]) <= TreeSize
            /\ Calls(i) > TreeSize => ret[i] = 0)
  /\ [][\A i \in live \cap live' :
          (origin[i] = "scope" /\ <<ret[i], visits[i], endCalls[i]>>
                                    # <<ret'[i], visits'[i], endCalls'[i]>>)
            => /\ Calls(i)' = Calls(i) + 1
               /\ \/ ret'[i] = 1 /\ Len(visits'[i]) = Len(visits[i]) + 1
                  \/ ret'[i] = 0 /\ endCalls'[i] = endCalls[i] + 1]_vars

\* The enumeration of a class with a using-declaration of two targets has
\* ended after as many visits as there are declarations and shadows, less
\* one.
C26_Witness ==
  /\ origin["a"] = "scope" /\ ret["a"] = 0
  /\ \E d \in UsingHandles : Len(DeclAt(d).shadows) = 2
  /\ Len(visits["a"]) = TreeSize - 1

(***************************************************************************)
(* C27: ownership of the UsingIterator objects                             *)
(***************************************************************************)
\* The live cursors whose fUsingIter points to heap cell p.
Owners(p) == { i \in live : cur[i].fUsingIter = p }

\* C27: every allocated UsingIterator is owned by exactly one live cursor:
\* none is shared by a cursor and its copy and none is left allocated
\* without an owner after an assignment.
C27_EveryUsingIterHasOneOwner ==
  \A p \in 1..HeapSize : heap[p].used => Cardinality(Owners(p)) = 1

(***************************************************************************)
(* C28: the name cache                                                     *)
(***************************************************************************)
\* The name of the declaration GetDecl() returns for cursor i.
NameOfCurrent(i) ==
  IF ~IsValid(cur[i], heap) THEN NullCStr
  ELSE CStr(AttrsOf(GetMethodDecl(cur[i], heap)).name)

\* C28: after any sequence of Next(), Init() and Name() calls, Name()
\* returns the name of the declaration GetDecl() returns at that moment.
C28_NameIsNameOfCurrent ==
  \A i \in live : Name(cur[i], heap).ret = NameOfCurrent(i)

(***************************************************************************)
(* C29: the title                                                          *)
(***************************************************************************)
\* C29: Title() of two cursors that are on the same declaration is the
\* same string, whatever each of them visited and queried before.
C29_TitleOfCurrentOnly ==
  \A i \in live : \A j \in live :
    (CurDecl(i) # NullDecl /\ CurDecl(i) = CurDecl(j))
      => Title(cur[i], heap).ret = Title(cur[j], heap).ret

(***************************************************************************)
(* C30: the access bits of Property()                                      *)
(***************************************************************************)
\* The access bits Property() sets for cursor i.
AccessOf(i) == Property(cur[i], heap) \cap AccessBits

\* The function cursor i is on is declared directly in the translation
\* unit, in no namespace and no class.
AtTopLevel(i) ==
  LET fd == GetMethodDecl(cur[i], heap)
  IN world.kind = "TU" /\ fd.sh = 0 /\ Len(fd.ctx) = 1

\* The bit the claim names: that of the access-override declaration if one
\* is set, else that of the access specifier of a member of a class, else
\* public.
NamedAccessBit(i) ==
  IF cur[i].fAccessDecl # NullDecl THEN AccessBit(world.fn.usingAccess)
  ELSE IF world.kind = "Class" THEN AccessBit(world.fn.access)
  ELSE "kIsPublic"

\* C30 as stated: for every valid, non-deleted current declaration
\* Property() sets exactly one access bit, public for a function without
\* access specifier in a namespace or at top level.
C30_ExactlyOneAccessBit ==
  \A i \in live : ~InvalidOrDeleted(i) => AccessOf(i) = { NamedAccessBit(i) }

\* C30 amended: Property() sets exactly the named access bit, except for a
\* function declared directly in the translation unit with no
\* access-override declaration set, for which it sets no access bit.
C30_OneAccessBitExceptAtTopLevel ==
  \A i \in live :
    ~InvalidOrDeleted(i) =>
      AccessOf(i) = IF AtTopLevel(i) /\ cur[i].fAccessDecl = NullDecl THEN {}
                    ELSE { NamedAccessBit(i) }

\* Property() was called on a function declared directly in the
\* translation unit and set no access bit.
C30_Witness ==
  /\ "a" \in live /\ ~InvalidOrDeleted("a")
  /\ last.op = "Property"
  /\ world.kind = "TU"
  /\ AtTopLevel("a")
  /\ AccessOf("a") = {}

(***************************************************************************)
(* C31: the list of class names                                            *)
(***************************************************************************)
\* The argument names a class: it is no null pointer, is not empty and
\* does not start with '('.
NamesAClass(normName) ==
  ~normName.null /\ normName.chars # <<>> /\ Head(normName.chars) # "("

\* C31: every entry of gClassesToStore is a non-empty name that does not
\* start with '('; a call of AddStreamerInfoToROOTFile appends its argument
\* when it names a class and leaves the list as it is for a null pointer,
\* an empty name or a name starting with '(', and no other operation
\* changes the list, so the entries are the accepted names in call order.
C31_ClassListIsAcceptedNamesInOrder ==
  /\ [](\A k \in 1..Len(io.gClassesToStore) :
          /\ io.gClassesToStore[k] # <<>>
          /\ Head(io.gClassesToStore[k]) # "(")
  /\ [][/\ \A normName \in ClassArgs :
             AddStreamerInfoToROOTFile(normName) =>
               io'.gClassesToStore =
                 IF NamesAClass(normName)
                 THEN Append(io.gClassesToStore, normName.chars)
                 ELSE io.gClassesToStore
        /\ io'.op # "AddStreamerInfoToROOTFile" =>
             io'.gClassesToStore = io.gClassesToStore]_vars

\* Two different class names were added, the second by the last call.
C31_Witness ==
  /\ io.op = "AddStreamerInfoToROOTFile"
  /\ Len(io.gClassesToStore) = 2
  /\ io.gClassesToStore[1] # io.gClassesToStore[2]

====
